---- MODULE Spec2Model ----
(***************************************************************************)
(* Decision intelligence pipeline of Credify: fraud rules, risk banding,   *)
(* decision with fraud override, explanation, advisory and counterfactual  *)
(* suggestions.                                                            *)
(*                                                                         *)
(* Units.  Probabilities (approval probability, PD) are integers in        *)
(* thousandths: 700 is 0.70.  Numeric feature values of the application    *)
(* mapping are integers in hundredths: 250 is 2.50, 300000 is 3000.00.     *)
(* fraud_score is in hundredths as well (every rule weight has two         *)
(* decimals, so round(score, 3) keeps it).                                 *)
(***************************************************************************)
EXTENDS Integers, Sequences, FiniteSets, TLC

VARIABLES
    pc,         \* position of the call being modelled
    raw,        \* the application feature mapping (dict) given to the call
    p_in,       \* probability given to a function that is called alone
    model,      \* behaviour of the injected classifier for this request
    explainer,  \* behaviour of the injected explainer for this request
    lime_in,    \* attribution list given to a generator that is called alone
    flags_in,   \* fraud_flags given to analyze_borderline_application
    out,        \* what the call returned (or that it raised)
    proba_calls,         \* how often model.predict_proba has been invoked
    heap,                \* the mutable objects (dicts, lists) a call touches
    documents_store,     \* api.documents_store: application id -> documents
    applications_store,  \* api.applications_store: the analysed applications
    tasks                \* the background extraction tasks that were queued

vars == <<pc, raw, p_in, model, explainer, lime_in, flags_in, out,
          proba_calls, heap, documents_store, applications_store, tasks>>

\* the process-wide objects of api.py
storeVars == <<documents_store, applications_store, tasks>>

\* the keys an application mapping can hold: the fields of
\* CustomerApplication and the training label is_fraud
Fields ==
    {"age", "education_level", "employment_type", "employment_years",
     "monthly_income", "fixed_monthly_expenses", "debt_to_income_ratio",
     "savings_balance", "loan_amount", "loan_duration_months", "loan_purpose",
     "credit_score", "late_payments_12m", "missed_payments_12m",
     "utility_bill_on_time_ratio", "income_inflation_ratio",
     "document_mismatch_flag", "application_velocity",
     "geo_location_mismatch", "metadata_anomaly_score", "is_fraud"}

(***************************************************************************)
(* Python values held by the feature mapping.                              *)
(***************************************************************************)
Num(n) == [k |-> "num", v |-> n]
NoneVal == [k |-> "none", v |-> 0]
BadStr == [k |-> "str", v |-> 0]
Absent == [k |-> "absent", v |-> 0]

\* dict.get(key, default): the default replaces only a missing key
Get(d, key, default) == IF d[key].k = "absent" THEN default ELSE d[key]

\* key in dict
Has(d, key) == d[key].k # "absent"

\* int(x) and float(x) raise TypeError on None and ValueError on a
\* non-numeric string
Coercible(x) == x.k = "num"

\* int(x) of a number truncates toward zero (result in units)
PyInt(x) == IF x.v >= 0 THEN x.v \div 100 ELSE -((-x.v) \div 100)

\* float(x) of a number keeps the value (result in hundredths)
PyFloat(x) == x.v

Min(a, b) == IF a <= b THEN a ELSE b
Max(a, b) == IF a >= b THEN a ELSE b
Abs(a) == IF a >= 0 THEN a ELSE -a

(***************************************************************************)
(* decision_engine.py: thresholds and risk band                            *)
(***************************************************************************)
APPROVE_TH == 700
REJECT_TH == 400

risk_band_from_pd_strict(p_approve) ==
    IF p_approve > APPROVE_TH THEN "APPROVED"
    ELSE IF p_approve < REJECT_TH THEN "REJECTED"
    ELSE "MIDDLE"

risk_band_from_pd(p_approve) ==
    IF p_approve >= APPROVE_TH THEN "APPROVED"
    ELSE IF p_approve <= REJECT_TH THEN "REJECTED"
    ELSE "MIDDLE"

(***************************************************************************)
(* fraud_detector.py: get_risk_band, on a probability of default           *)
(***************************************************************************)
get_risk_band(pd_score, approve_threshold, reject_threshold) ==
    IF pd_score >= approve_threshold THEN "High"
    ELSE IF pd_score <= reject_threshold THEN "Low"
    ELSE "Middle"

(***************************************************************************)
(* fraud_detector.py: fraud_check                                          *)
(***************************************************************************)
FraudFields ==
    {"is_fraud", "document_mismatch_flag", "metadata_anomaly_score",
     "income_inflation_ratio", "geo_location_mismatch", "monthly_income",
     "fixed_monthly_expenses", "application_velocity", "missed_payments_12m",
     "utility_bill_on_time_ratio"}

\* The unguarded coercions of fraud_check, in evaluation order: the field
\* read and the default used when the key is missing.
FraudCoercions ==
    << [field |-> "is_fraud", default |-> Num(0)],
       [field |-> "document_mismatch_flag", default |-> Num(0)],
       [field |-> "metadata_anomaly_score", default |-> Num(0)],
       [field |-> "income_inflation_ratio", default |-> Num(100)],
       [field |-> "geo_location_mismatch", default |-> Num(0)],
       [field |-> "application_velocity", default |-> Num(0)],
       [field |-> "missed_payments_12m", default |-> Num(0)],
       [field |-> "utility_bill_on_time_ratio", default |-> Num(100)] >>

\* fraud_check raises when one of its int()/float() calls gets None or a
\* non-numeric string; the income/expenses rule alone is guarded
FraudCheckRaises(d) ==
    \E i \in 1..Len(FraudCoercions) :
        ~Coercible(Get(d, FraudCoercions[i].field, FraudCoercions[i].default))

\* the exception of the first failing coercion
FraudCheckException(d) ==
    LET bad == {i \in 1..Len(FraudCoercions) :
                  ~Coercible(Get(d, FraudCoercions[i].field, FraudCoercions[i].default))}
        first == CHOOSE i \in bad : \A j \in bad : i <= j
        x == Get(d, FraudCoercions[first].field, FraudCoercions[first].default)
    IN  IF x.k = "none" THEN "TypeError" ELSE "ValueError"

\* The rules in evaluation order, with the flag each appends and the weight
\* it adds to the score.
FraudRules ==
    << [name |-> "explicit_fraud_label", severity |-> "hard", weight |-> 60],
       [name |-> "document_mismatch", severity |-> "hard", weight |-> 35],
       [name |-> "metadata_anomaly_high", severity |-> "hard", weight |-> 35],
       [name |-> "income_inflation_extreme", severity |-> "hard", weight |-> 35],
       [name |-> "geo_location_mismatch", severity |-> "soft", weight |-> 15],
       [name |-> "expenses_gt_income", severity |-> "soft", weight |-> 15],
       [name |-> "rapid_multiple_applications", severity |-> "soft", weight |-> 15],
       [name |-> "many_missed_payments_12m", severity |-> "soft", weight |-> 12],
       [name |-> "low_utility_on_time_ratio", severity |-> "soft", weight |-> 12],
       [name |-> "income_inflation_moderate", severity |-> "soft", weight |-> 12] >>

\* the condition of each rule (evaluated only when no coercion raises)
RuleMatches(name, d) ==
    CASE name = "explicit_fraud_label" ->
            PyInt(Get(d, "is_fraud", Num(0))) = 1
      [] name = "document_mismatch" ->
            PyInt(Get(d, "document_mismatch_flag", Num(0))) = 1
      [] name = "metadata_anomaly_high" ->
            PyFloat(Get(d, "metadata_anomaly_score", Num(0))) >= 80
      [] name = "income_inflation_extreme" ->
            PyFloat(Get(d, "income_inflation_ratio", Num(100))) >= 250
      [] name = "geo_location_mismatch" ->
            PyInt(Get(d, "geo_location_mismatch", Num(0))) = 1
      [] name = "expenses_gt_income" ->
            LET income == Get(d, "monthly_income", NoneVal)
                expenses == Get(d, "fixed_monthly_expenses", NoneVal)
            IN  /\ income.k # "none" /\ expenses.k # "none"
                /\ Coercible(income) /\ Coercible(expenses)
                /\ PyFloat(income) > 0
                /\ PyFloat(expenses) > PyFloat(income)
      [] name = "rapid_multiple_applications" ->
            PyInt(Get(d, "application_velocity", Num(0))) >= 3
      [] name = "many_missed_payments_12m" ->
            PyInt(Get(d, "missed_payments_12m", Num(0))) >= 3
      [] name = "low_utility_on_time_ratio" ->
            PyFloat(Get(d, "utility_bill_on_time_ratio", Num(100))) < 30
      [] name = "income_inflation_moderate" ->
            LET infl == PyFloat(Get(d, "income_inflation_ratio", Num(100)))
            IN  150 <= infl /\ infl < 250

\* flags and score after the first n rules
RECURSIVE FraudEval(_, _)
FraudEval(d, n) ==
    IF n = 0 THEN [flags |-> <<>>, score |-> 0]
    ELSE LET prev == FraudEval(d, n - 1)
             r == FraudRules[n]
         IN  IF RuleMatches(r.name, d)
             THEN [flags |-> Append(prev.flags,
                                    [name |-> r.name, severity |-> r.severity]),
                   score |-> prev.score + r.weight]
             ELSE prev

FraudRaised(exc) ==
    [status |-> "raised", exception |-> exc, decision |-> "NONE",
     fraud_score |-> 0, flags |-> <<>>]

fraud_check_unclamped(d) ==
    IF FraudCheckRaises(d) THEN FraudRaised(FraudCheckException(d))
    ELSE LET e == FraudEval(d, Len(FraudRules))
         IN  [status |-> "ok", exception |-> "NONE",
              decision |-> IF \E i \in 1..Len(e.flags) : e.flags[i].severity = "hard"
                           THEN "BLOCK" ELSE "PASS",
              fraud_score |-> e.score,
              flags |-> e.flags]

fraud_check(d) ==
    IF FraudCheckRaises(d) THEN FraudRaised(FraudCheckException(d))
    ELSE LET e == FraudEval(d, Len(FraudRules))
         IN  [status |-> "ok", exception |-> "NONE",
              decision |-> IF \E i \in 1..Len(e.flags) : e.flags[i].severity = "hard"
                           THEN "BLOCK" ELSE "PASS",
              fraud_score |-> Min(e.score, 100),
              flags |-> e.flags]

(***************************************************************************)
(* The injected classifier and explainer                                   *)
(*                                                                         *)
(* model.status    "ok", or "raises" when predict_proba raises             *)
(* model.classes   classes_ of the model: "01" is [0, 1], "10" is [1, 0],  *)
(*                 "absent" a model without the attribute                  *)
(* model.proba     the row predict_proba returns for the application       *)
(* explainer.kind  "none" (explainer is None), "raises" (explain_instance  *)
(*                 raises or does not exist) or "ok"                       *)
(* explainer.as_list  the (descriptor, weight) pairs of the explanation    *)
(*                                                                         *)
(* A descriptor is the text lead + tag + name + rest, e.g.                 *)
(* "0.00 < " + "" + "monthly_income" + " <= 50000.00".                     *)
(***************************************************************************)
Desc(lead, tag, name, rest) ==
    [lead |-> lead, tag |-> tag, name |-> name, rest |-> rest]

\* list(model.classes_).index(1), falling back to 1 (1-based here)
ApproveIdx(m) == IF m.classes = "10" THEN 1 ELSE 2

(***************************************************************************)
(* decision_engine.py: analyze_application_complete                        *)
(***************************************************************************)
snapshot_features ==
    <<"monthly_income", "fixed_monthly_expenses", "debt_to_income_ratio",
      "employment_years", "employment_type", "loan_amount",
      "loan_duration_months", "utility_bill_on_time_ratio">>

build_feature_snapshot(d, features) ==
    [f \in {features[i] : i \in 1..Len(features)} |-> d[f]]

\* feat.split(":")[0] then the prefixes num__ and cat__ removed
CleanSummaryName(desc) == [desc EXCEPT !.tag = ""]

Take(s, n) == SubSeq(s, 1, Min(n, Len(s)))

build_summary(decision, pd_percent, fraud_result, lime_features) ==
    IF decision = "BLOCKED_FRAUD"
    THEN [kind |-> "blocked", pd_percent |-> pd_percent,
          names |-> IF fraud_result.flags # <<>>
                    THEN [i \in 1..Len(fraud_result.flags) |-> fraud_result.flags[i].name]
                    ELSE <<"inconsistency">>]
    ELSE LET top == Take(lime_features, 3)
             cleaned == [i \in 1..Len(top) |-> CleanSummaryName(top[i].feature)]
             reasons == IF cleaned # <<>> THEN cleaned ELSE <<"key risk factors">>
         IN  [kind |-> CASE decision = "APPROVED" -> "approved"
                         [] decision = "REJECTED" -> "rejected"
                         [] OTHER -> "manual_review",
              pd_percent |-> pd_percent,
              names |-> reasons]

\* step 4: the explanation; every failure degrades to the empty list
LimeFeatures(e) ==
    IF e.kind = "ok"
    THEN [i \in 1..Len(e.as_list) |->
             [feature |-> e.as_list[i][1], weight |-> e.as_list[i][2]]]
    ELSE <<>>

\* a variant that overrides only when the band is not APPROVED
FinalDecisionUnlessApproved(band, fraud_result) ==
    IF fraud_result.decision = "BLOCK" /\ band # "APPROVED"
    THEN "BLOCKED_FRAUD" ELSE band

\* a variant that renames the MIDDLE band
FinalDecisionRenamed(band, fraud_result) ==
    IF fraud_result.decision = "BLOCK" THEN "BLOCKED_FRAUD"
    ELSE IF band = "MIDDLE" THEN "MANUAL_REVIEW" ELSE band

\* step 5: final decision with fraud override
FinalDecision(band, fraud_result) ==
    IF fraud_result.decision = "BLOCK" THEN "BLOCKED_FRAUD" ELSE band

EngineRaised(where, exc) == [status |-> "raised", where |-> where, exception |-> exc]

\* the result once predict_proba has returned
AnalysisResult(d, m, e) ==
    LET p_approve == m.proba[ApproveIdx(m)]
        pd_score == 1000 - p_approve
        band == risk_band_from_pd(p_approve)
        fraud_result == fraud_check(d)
        lime_features == LimeFeatures(e)
        final_decision == FinalDecision(band, fraud_result)
        pd_percent == pd_score * 10  \* round(pd_score * 100, 2), in 0.01 %
    IN  IF fraud_result.status = "raised"
        THEN EngineRaised("fraud_check", fraud_result.exception)
        ELSE [status |-> "ok",
              decision |-> final_decision,
              risk_band |-> band,
              pd_score |-> pd_score,
              pd_percent |-> pd_percent,
              approve_probability_percent |-> p_approve * 10,
              thresholds |-> [approve |-> APPROVE_TH, reject |-> REJECT_TH],
              fraud |-> fraud_result,
              fraud_decision |-> fraud_result.decision,
              fraud_score |-> fraud_result.fraud_score,
              lime_features |-> lime_features,
              feature_snapshot |-> build_feature_snapshot(d, snapshot_features),
              summary |-> build_summary(final_decision, pd_percent,
                                        fraud_result, lime_features),
              input_data |-> d]

\* a variant that scores 0.5 when the classifier gives no probability
analyze_application_complete_defaulting(d, m, e) ==
    IF m.status = "raises"
    THEN AnalysisResult(d, [status |-> "ok", classes |-> "01", proba |-> <<500, 500>>], e)
    ELSE AnalysisResult(d, m, e)

analyze_application_complete(d, m, e) ==
    IF m.status = "raises"
    THEN EngineRaised("predict_proba", "Exception")
    ELSE AnalysisResult(d, m, e)

(***************************************************************************)
(* lime_explainer.py: LoanLimeExplainer.explain                            *)
(***************************************************************************)
\* rest texts that start with a blank, and the first blank-separated token
\* of a lead text
SpacedRests == {" <= 50000.00", " <= 700.00", " > 0.50"}
LeadToken(lead) == CASE lead = "0.00 < " -> "0.00" [] OTHER -> lead

\* feature_desc.split()[0] if ' ' in feature_desc else feature_desc
FeatureName(desc) ==
    IF desc.lead # "" THEN Desc("", "", LeadToken(desc.lead), "")
    ELSE IF desc.rest \in SpacedRests THEN Desc("", desc.tag, desc.name, "")
    ELSE desc

\* list.sort(key=abs(contribution), reverse=True) is stable: an entry goes
\* behind every entry that is at least as large in absolute value
InsertByAbs(x, t) ==
    LET k == Cardinality({i \in 1..Len(t) :
                            Abs(t[i].contribution) >= Abs(x.contribution)})
    IN  SubSeq(t, 1, k) \o <<x>> \o SubSeq(t, k + 1, Len(t))

RECURSIVE SortByAbsContribution(_)
SortByAbsContribution(s) ==
    IF s = <<>> THEN <<>>
    ELSE InsertByAbs(s[Len(s)], SortByAbsContribution(SubSeq(s, 1, Len(s) - 1)))

ExplainEntries(e) ==
    [i \in 1..Len(e.as_list) |->
        [feature |-> FeatureName(e.as_list[i][1]),
         contribution |-> e.as_list[i][2],
         description |-> e.as_list[i][1]]]

\* a variant that keeps the explainer's order
explain_unsorted(e) ==
    IF e.kind # "ok" THEN [status |-> "raised", lime_features |-> <<>>]
    ELSE [status |-> "ok", lime_features |-> ExplainEntries(e)]

explain(e) ==
    IF e.kind # "ok" THEN [status |-> "raised", lime_features |-> <<>>]
    ELSE [status |-> "ok",
          lime_features |-> SortByAbsContribution(ExplainEntries(e))]

(***************************************************************************)
(* improvement_suggester.py                                                *)
(*                                                                         *)
(* model.tweaked[f] is what predict_proba does on the application with     *)
(* feature f perturbed: [status, proba] like the model itself.             *)
(***************************************************************************)
\* FEATURE_TWEAKS in insertion order; amounts in hundredths
FEATURE_TWEAKS ==
    << [feature |-> "monthly_income", kind |-> "increase_percent", amount |-> 15,
        feasibility |-> "long-term"],
       [feature |-> "fixed_monthly_expenses", kind |-> "decrease_percent", amount |-> 20,
        feasibility |-> "short-term"],
       [feature |-> "savings_balance", kind |-> "increase_percent", amount |-> 25,
        feasibility |-> "long-term"],
       [feature |-> "employment_years", kind |-> "increase_years", amount |-> 200,
        feasibility |-> "long-term"],
       [feature |-> "credit_score", kind |-> "increase_points", amount |-> 5000,
        feasibility |-> "short-term"],
       [feature |-> "utility_bill_on_time_ratio", kind |-> "target", amount |-> 98,
        feasibility |-> "short-term"],
       [feature |-> "loan_amount", kind |-> "decrease_percent", amount |-> 15,
        feasibility |-> "immediate"],
       [feature |-> "loan_duration_months", kind |-> "decrease_percent", amount |-> 20,
        feasibility |-> "immediate"],
       [feature |-> "debt_to_income_ratio", kind |-> "decrease_percent", amount |-> 15,
        feasibility |-> "short-term"] >>

TweakFeatures == {FEATURE_TWEAKS[i].feature : i \in 1..Len(FEATURE_TWEAKS)}

\* the perturbed value of a numeric feature (hundredths, fractions of a
\* hundredth dropped)
TweakedValue(tweak, v) ==
    CASE tweak.kind = "increase_percent" -> (v * (100 + tweak.amount)) \div 100
      [] tweak.kind = "decrease_percent" -> (v * (100 - tweak.amount)) \div 100
      [] tweak.kind = "increase_years" -> v + tweak.amount
      [] tweak.kind = "increase_points" -> v + tweak.amount
      [] tweak.kind = "target" -> tweak.amount

\* arithmetic on None or a string raises TypeError; the target tweak
\* only assigns
TweakRaises(tweak, x) == tweak.kind # "target" /\ x.k # "num"

\* a / b rounded to the nearest integer, halves to the even neighbour, as
\* the format spec .1f rounds (a >= 0, b > 0)
RoundDiv(a, b) ==
    LET q == a \div b
        r == a % b
    IN  IF 2 * r < b THEN q
        ELSE IF 2 * r > b THEN q + 1
        ELSE IF q % 2 = 0 THEN q ELSE q + 1

\* the number shown by improvement_str, in tenths of a percent:
\* f"{improvement_percent:.1f}%" if improvement > 0 else "0%"
ImprovementStr(pd_orig, pd_mod) ==
    IF pd_orig - pd_mod > 0
    THEN (IF pd_orig > 0 THEN RoundDiv((pd_orig - pd_mod) * 1000, pd_orig) ELSE 0)
    ELSE 0

\* the two entries of a predict_proba row add up to 1: their sum is the
\* resolution the classifier's probabilities are written in (1000 where
\* thousandths are enough, 10000 where perturbations lie closer together)
ProbaUnit(m) == m.proba[1] + m.proba[2]

\* f"{(pd_improved * 100):.2f}%", in units of 0.01 %
NewEstimatedPd(pd_improved, m) == RoundDiv(pd_improved * 10000, ProbaUnit(m))

\* test_feature_improvement for a feature of FEATURE_TWEAKS; calls is the
\* number of model.predict_proba invocations it made: the unmodified
\* application is scored first, the perturbed one second
test_feature_improvement(d, m, tweak) ==
    IF m.status = "raises"
    THEN [status |-> "raised", where |-> "predict_proba", calls |-> 1]
    ELSE LET pd_orig == ProbaUnit(m) - m.proba[ApproveIdx(m)]
             original_value == Get(d, tweak.feature, Num(0))
             t == m.tweaked[tweak.feature]
         IN  IF TweakRaises(tweak, original_value)
             THEN [status |-> "raised", where |-> "tweak", calls |-> 1]
             ELSE IF t.status = "raises"
             THEN [status |-> "raised", where |-> "predict_proba", calls |-> 2]
             ELSE LET pd_mod == ProbaUnit(m) - t.proba[ApproveIdx(m)]
                  IN  [status |-> "ok", pd_orig |-> pd_orig, pd_mod |-> pd_mod,
                       improvement |-> ImprovementStr(pd_orig, pd_mod),
                       calls |-> 2]

\* f["feature"].lower().find(feature_name.lower()) >= 0
MentionsFeature(entry, feature_name) == entry.feature.name = feature_name

\* next((f["weight"] for f in lime_features if ...), None): the weight of
\* the first entry naming the feature; KeyError if that entry has no weight
LimeContribution(lime_features, feature_name) ==
    LET hits == {i \in 1..Len(lime_features) :
                    MentionsFeature(lime_features[i], feature_name)}
    IN  IF hits = {} THEN [status |-> "ok", weight |-> NoneVal]
        ELSE LET first == CHOOSE i \in hits : \A j \in hits : i <= j
             IN  IF "weight" \in DOMAIN lime_features[first]
                 THEN [status |-> "ok", weight |-> Num(lime_features[first].weight)]
                 ELSE [status |-> "raised", weight |-> NoneVal]

\* the numbers get_suggestion puts into the text (units, fractions dropped
\* by int())
SpecificSuggestion(tweak, v) ==
    CASE tweak.kind \in {"increase_percent", "decrease_percent"}
            /\ tweak.feature # "debt_to_income_ratio" ->
            [template |-> tweak.feature, number |-> (v * tweak.amount) \div 10000,
             current |-> 0]
      [] tweak.feature = "debt_to_income_ratio" ->
            [template |-> tweak.feature, number |-> (v * tweak.amount) \div 100,
             current |-> 0]
      [] tweak.kind \in {"increase_years", "increase_points"} ->
            [template |-> tweak.feature, number |-> tweak.amount \div 100,
             current |-> 0]
      [] tweak.kind = "target" ->
            [template |-> tweak.feature, number |-> tweak.amount, current |-> v]

\* the least improvement (tenths of a percent) that is not enough
ImprovementThreshold == 1

\* a variant that keeps every feature whose improvement is positive
KeepsSuggestionAnyGain(improvement_float) == improvement_float > 0

\* if improvement_float > 0.1
KeepsSuggestion(improvement_float) == improvement_float > ImprovementThreshold

\* a variant of the loop body in which an exception ends the batch with
\* nothing to return
AfterFeatureAborting(prev, d, m, lime_features, tweak) ==
    LET t == test_feature_improvement(d, m, tweak)
        lc == LimeContribution(lime_features, tweak.feature)
    IN  IF ~Has(d, tweak.feature) THEN prev
        ELSE IF t.status = "raised" THEN <<>>
        ELSE IF ~KeepsSuggestion(t.improvement) THEN prev
        ELSE IF lc.status = "raised" THEN <<>>
        ELSE IF d[tweak.feature].k # "num" THEN <<>>
        ELSE Append(prev,
               [feature |-> tweak.feature,
                current_value |-> d[tweak.feature],
                suggestion |-> SpecificSuggestion(tweak, d[tweak.feature].v),
                pd_reduction |-> t.improvement,
                new_estimated_pd |-> NewEstimatedPd(t.pd_mod, m),
                feasibility |-> tweak.feasibility,
                impact_score |-> t.improvement,
                lime_weight |-> lc.weight])

\* the body of the loop of generate_ai_suggestions for one feature of
\* FEATURE_TWEAKS: the suggestions so far, with the feature's own added if
\* it is present, improves enough and nothing raised (except ... continue)
AfterFeature(prev, d, m, lime_features, tweak) ==
    LET t == test_feature_improvement(d, m, tweak)
        lc == LimeContribution(lime_features, tweak.feature)
    IN  IF ~Has(d, tweak.feature) THEN prev
        ELSE IF t.status = "raised" THEN prev
        ELSE IF ~KeepsSuggestion(t.improvement) THEN prev
        ELSE IF lc.status = "raised" THEN prev
        ELSE IF d[tweak.feature].k # "num" THEN prev
        ELSE Append(prev,
               [feature |-> tweak.feature,
                current_value |-> d[tweak.feature],
                suggestion |-> SpecificSuggestion(tweak, d[tweak.feature].v),
                pd_reduction |-> t.improvement,
                new_estimated_pd |-> NewEstimatedPd(t.pd_mod, m),
                feasibility |-> tweak.feasibility,
                impact_score |-> t.improvement,
                lime_weight |-> lc.weight])

\* the loop of generate_ai_suggestions: the suggestions after the first n
\* features of FEATURE_TWEAKS
RECURSIVE SuggestionsAfter(_, _, _, _)
SuggestionsAfter(d, m, lime_features, n) ==
    IF n = 0 THEN <<>>
    ELSE AfterFeature(SuggestionsAfter(d, m, lime_features, n - 1),
                      d, m, lime_features, FEATURE_TWEAKS[n])

\* list.sort(key=impact_score, reverse=True), stable
InsertByImpact(x, t) ==
    LET k == Cardinality({i \in 1..Len(t) : t[i].impact_score >= x.impact_score})
    IN  SubSeq(t, 1, k) \o <<x>> \o SubSeq(t, k + 1, Len(t))

RECURSIVE SortByImpact(_)
SortByImpact(s) ==
    IF s = <<>> THEN <<>>
    ELSE InsertByImpact(s[Len(s)], SortByImpact(SubSeq(s, 1, Len(s) - 1)))

MaxSuggestions == 5

\* a variant that returns the first suggestions found, in catalog order
generate_ai_suggestions_unsorted(d, m, current_pd, lime_features) ==
    Take(SuggestionsAfter(d, m, lime_features, Len(FEATURE_TWEAKS)),
         MaxSuggestions)

generate_ai_suggestions(d, m, current_pd, lime_features) ==
    Take(SortByImpact(SuggestionsAfter(d, m, lime_features, Len(FEATURE_TWEAKS))),
         MaxSuggestions)

\* a variant in which the unmodified application is scored once per
\* request and every perturbation once
RECURSIVE SuggesterProbaCallsSharedBaseline(_, _, _)
SuggesterProbaCallsSharedBaseline(d, m, n) ==
    IF n = 0 THEN 0
    ELSE SuggesterProbaCallsSharedBaseline(d, m, n - 1)
         + (IF Has(d, FEATURE_TWEAKS[n].feature)
            THEN test_feature_improvement(d, m, FEATURE_TWEAKS[n]).calls - 1
            ELSE 0)

\* the model.predict_proba invocations of generate_ai_suggestions over the
\* first n features of FEATURE_TWEAKS: those of test_feature_improvement for
\* every feature that is in raw_data
RECURSIVE SuggesterProbaCalls(_, _, _)
SuggesterProbaCalls(d, m, n) ==
    IF n = 0 THEN 0
    ELSE SuggesterProbaCalls(d, m, n - 1)
         + (IF Has(d, FEATURE_TWEAKS[n].feature)
            THEN test_feature_improvement(d, m, FEATURE_TWEAKS[n]).calls
            ELSE 0)

(***************************************************************************)
(* knowledge_base.py                                                       *)
(***************************************************************************)
\* FEATURE_KNOWLEDGE: the features in table order
KnowledgeFeatures ==
    <<"age",
      "education_level",
      "employment_type",
      "employment_years",
      "monthly_income",
      "fixed_monthly_expenses",
      "debt_to_income_ratio",
      "savings_balance",
      "loan_amount",
      "loan_duration_months",
      "loan_purpose",
      "credit_score",
      "late_payments_12m",
      "missed_payments_12m",
      "utility_bill_on_time_ratio",
      "income_inflation_ratio",
      "document_mismatch_flag",
      "application_velocity",
      "geo_location_mismatch",
      "metadata_anomaly_score">>

\* FEATURE_KNOWLEDGE[fname]["documents"]
KnowledgeDocuments(fname) ==
    CASE fname = "age" ->
            <<"Parent/guardian letter of support",
              "Asset documentation">>
      [] fname = "education_level" ->
            <<"Education certificates",
              "Professional certifications",
              "Training records">>
      [] fname = "employment_type" ->
            <<"Employment contract",
              "Employer verification letter",
              "Pay stubs">>
      [] fname = "employment_years" ->
            <<"Previous employment letters",
              "HR verification",
              "Work history">>
      [] fname = "monthly_income" ->
            <<"Bank statements (3 months)",
              "Tax returns",
              "Side income proof",
              "Investment income">>
      [] fname = "fixed_monthly_expenses" ->
            <<"Expense breakdown",
              "Budget plan",
              "Debt consolidation plan">>
      [] fname = "debt_to_income_ratio" ->
            <<"Current debt statements",
              "Payoff letters",
              "Debt consolidation plan">>
      [] fname = "savings_balance" ->
            <<"Additional bank statements",
              "Investment account statements",
              "Asset documentation">>
      [] fname = "loan_amount" ->
            <<"Revised loan application",
              "Detailed budget showing necessity">>
      [] fname = "loan_duration_months" ->
            <<"Budget projection",
              "Payment schedule analysis">>
      [] fname = "loan_purpose" ->
            <<"Invoices",
              "Quotes",
              "Business plan",
              "Purchase agreement">>
      [] fname = "credit_score" ->
            <<"Credit report",
              "Explanation letter",
              "Proof of resolved debts",
              "Payment plans">>
      [] fname = "late_payments_12m" ->
            <<"Explanation letter",
              "Recent on-time payment proof",
              "Employment verification">>
      [] fname = "missed_payments_12m" ->
            <<"Explanation letter",
              "Proof of resolved situation",
              "Recent payment history">>
      [] fname = "utility_bill_on_time_ratio" ->
            <<"Recent utility bills (3 months)",
              "Payment receipts",
              "Autopay setup confirmation">>
      [] fname = "income_inflation_ratio" ->
            <<"Official pay stubs",
              "Tax returns",
              "Employer letter",
              "Bank statements">>
      [] fname = "document_mismatch_flag" ->
            <<"Original documents",
              "Certified copies",
              "Additional verification">>
      [] fname = "application_velocity" ->
            <<"Explanation letter",
              "Financial situation overview",
              "Debt management plan">>
      [] fname = "geo_location_mismatch" ->
            <<"Utility bill with current address",
              "Rental agreement",
              "ID with current address">>
      [] fname = "metadata_anomaly_score" ->
            <<"Government ID",
              "Additional verification documents",
              "In-person verification">>

\* FEATURE_KNOWLEDGE[fname]["actions"]
KnowledgeActions(fname) ==
    CASE fname = "age" ->
            <<"Add co-signer",
              "Provide proof of assets",
              "Reduce loan amount">>
      [] fname = "education_level" ->
            <<"Provide proof of additional qualifications",
              "Show stable employment despite education level">>
      [] fname = "employment_type" ->
            <<"Provide employment contract",
              "Add employed co-applicant",
              "Show consistent work history">>
      [] fname = "employment_years" ->
            <<"Provide industry experience proof",
              "Wait 6 months and reapply",
              "Add co-applicant">>
      [] fname = "monthly_income" ->
            <<"Document all income sources",
              "Add co-applicant with income",
              "Reduce loan amount by 25%">>
      [] fname = "fixed_monthly_expenses" ->
            <<"Reduce discretionary spending",
              "Consolidate debts",
              "Cancel unused subscriptions">>
      [] fname = "debt_to_income_ratio" ->
            <<"Pay down credit card debt",
              "Consolidate high-interest debt",
              "Reduce loan amount by 20%">>
      [] fname = "savings_balance" ->
            <<"Build savings for 3 months",
              "Provide proof of other assets",
              "Add co-applicant with savings">>
      [] fname = "loan_amount" ->
            <<"Reduce loan by 20-30%",
              "Provide collateral",
              "Add co-borrower with income">>
      [] fname = "loan_duration_months" ->
            <<"Adjust loan term for lower payments",
              "Reduce loan amount instead",
              "Show ability to handle payments">>
      [] fname = "loan_purpose" ->
            <<"Provide detailed purpose documentation",
              "Show how loan improves income",
              "Demonstrate ROI">>
      [] fname = "credit_score" ->
            <<"Dispute credit report errors",
              "Pay off collections",
              "Show recent on-time payments">>
      [] fname = "late_payments_12m" ->
            <<"Show 6 months of on-time payments",
              "Set up autopay",
              "Provide circumstantial explanation">>
      [] fname = "missed_payments_12m" ->
            <<"Show improved payment pattern",
              "Explain one-time circumstances",
              "Provide guarantor">>
      [] fname = "utility_bill_on_time_ratio" ->
            <<"Set up autopay for all utilities",
              "Show 3 months on-time payments",
              "Provide explanation">>
      [] fname = "income_inflation_ratio" ->
            <<"Provide official income documentation",
              "Explain income variations",
              "Correct any errors">>
      [] fname = "document_mismatch_flag" ->
            <<"Resubmit documents",
              "Provide additional verification",
              "Explain discrepancies">>
      [] fname = "application_velocity" ->
            <<"Explain multiple applications",
              "Consolidate loan requests",
              "Wait before reapplying">>
      [] fname = "geo_location_mismatch" ->
            <<"Update address information",
              "Provide residence proof",
              "Explain relocations">>
      [] fname = "metadata_anomaly_score" ->
            <<"Visit branch for verification",
              "Provide additional documents",
              "Verify identity">>

\* the action texts containing "reduce", "add co" or "provide proof" (lower case)
ImmediateActions ==
    {"Add co-signer",
     "Provide proof of assets",
     "Reduce loan amount",
     "Provide proof of additional qualifications",
     "Add co-applicant",
     "Add co-applicant with income",
     "Reduce loan amount by 25%",
     "Reduce discretionary spending",
     "Reduce loan amount by 20%",
     "Provide proof of other assets",
     "Add co-applicant with savings",
     "Reduce loan by 20-30%",
     "Add co-borrower with income",
     "Reduce loan amount instead"}

\* the action texts containing "wait" or "month" (lower case)
WaitOrMonthActions ==
    {"Wait 6 months and reapply",
     "Build savings for 3 months",
     "Show 6 months of on-time payments",
     "Show 3 months on-time payments",
     "Wait before reapplying"}

\* PD_IMPROVEMENT_RULES, in thousandths
PD_IMPROVEMENT_RULES(fname) ==
    CASE fname = "debt_to_income_ratio" -> 25
      [] fname = "monthly_income" -> 20
      [] fname = "credit_score" -> 20
      [] fname = "employment_years" -> 15
      [] fname = "savings_balance" -> 15
      [] fname = "late_payments_12m" -> 15
      [] fname = "missed_payments_12m" -> 20
      [] fname = "utility_bill_on_time_ratio" -> 10
      [] fname = "loan_amount" -> 20
      [] fname = "fixed_monthly_expenses" -> 10
      [] fname = "document_mismatch_flag" -> 15
      [] fname = "application_velocity" -> 10
      [] fname = "income_inflation_ratio" -> 15
      [] fname = "age" -> 5
      [] fname = "education_level" -> 8
      [] fname = "employment_type" -> 12
      [] fname = "loan_duration_months" -> 8
      [] fname = "loan_purpose" -> 10
      [] fname = "geo_location_mismatch" -> 12
      [] fname = "metadata_anomaly_score" -> 15

PdImprovementFeatures ==
    {"debt_to_income_ratio",
     "monthly_income",
     "credit_score",
     "employment_years",
     "savings_balance",
     "late_payments_12m",
     "missed_payments_12m",
     "utility_bill_on_time_ratio",
     "loan_amount",
     "fixed_monthly_expenses",
     "document_mismatch_flag",
     "application_velocity",
     "income_inflation_ratio",
     "age",
     "education_level",
     "employment_type",
     "loan_duration_months",
     "loan_purpose",
     "geo_location_mismatch",
     "metadata_anomaly_score"}

KnowledgeFeatureSet == {KnowledgeFeatures[i] : i \in 1..Len(KnowledgeFeatures)}

(***************************************************************************)
(* borderline_advisor.py                                                   *)
(*                                                                         *)
(* An attribution entry is a record with the fields the producer gave it:  *)
(* explain gives feature, contribution and description,                    *)
(* analyze_application_complete gives feature and weight.                  *)
(***************************************************************************)
\* the text of a descriptor is a key of a table exactly when it is a bare name
IsBareName(desc) == desc.lead = "" /\ desc.tag = "" /\ desc.rest = ""
InKnowledge(desc) == IsBareName(desc) /\ desc.name \in KnowledgeFeatureSet
InPdRules(desc) == IsBareName(desc) /\ desc.name \in PdImprovementFeatures

\* f["contribution"] raises KeyError on an entry without that key
LacksContribution(lime_features) ==
    \E i \in 1..Len(lime_features) : "contribution" \notin DOMAIN lime_features[i]

\* [f for f in lime_features if f["contribution"] < 0]
IsNegative(f) == f.contribution < 0
Negative(lime_features) == SelectSeq(lime_features, IsNegative)

check_fraud_severity(fraud_flags) ==
    CASE fraud_flags.severity = "hard" -> "REJECT"
      [] fraud_flags.severity = "soft" -> "VERIFY"
      [] OTHER -> "PROCEED"

\* FEATURE_KNOWLEDGE.get(f, {}).get("explanation", f)
Reason(desc) ==
    IF InKnowledge(desc) THEN [explanation_of |-> desc.name, verbatim |-> desc]
    ELSE [explanation_of |-> "", verbatim |-> desc]

generate_explanation(lime_features, fraud_status) ==
    IF fraud_status = "VERIFY" THEN [kind |-> "verification", reasons |-> <<>>]
    ELSE LET negative == Negative(lime_features)
         IN  IF Len(negative) >= 2
             THEN [kind |-> "borderline_two",
                   reasons |-> <<Reason(negative[1].feature), Reason(negative[2].feature)>>]
             ELSE IF Len(negative) = 1
             THEN [kind |-> "borderline_one", reasons |-> <<Reason(negative[1].feature)>>]
             ELSE [kind |-> "manual_review", reasons |-> <<>>]

MaxQuestionOrder == 7

\* the feature loop of generate_questions over the first n of negative[:5]
RECURSIVE FeatureQuestions(_, _, _)
FeatureQuestions(negative, n, start) ==
    IF n = 0 THEN [questions |-> start.questions, order |-> start.order, stopped |-> FALSE]
    ELSE LET prev == FeatureQuestions(negative, n - 1, start)
             f == negative[n]
         IN  IF prev.stopped \/ ~InKnowledge(f.feature) THEN prev
             ELSE [questions |-> Append(prev.questions,
                                   [order |-> prev.order,
                                    question |-> [kb_question_of |-> f.feature.name],
                                    feature |-> f.feature.name,
                                    follow_up |-> [kb_follow_up_of |-> f.feature.name],
                                    contribution |-> f.contribution]),
                   order |-> prev.order + 1,
                   stopped |-> prev.order + 1 > MaxQuestionOrder]

\* a variant that asks the fraud-clarification question last
generate_questions_fraud_last(lime_features, fraud_flags) ==
    LET soft == fraud_flags.severity = "soft"
        negative == Take(Negative(lime_features), 5)
        asked == FeatureQuestions(negative, Len(negative),
                                  [questions |-> <<>>, order |-> 1])
    IN  IF soft
        THEN Append(asked.questions,
                    [order |-> asked.order,
                     question |-> [kb_question_of |-> "fraud_verification"],
                     feature |-> "fraud_verification",
                     follow_up |-> [kb_follow_up_of |-> "fraud_verification"]])
        ELSE asked.questions

generate_questions(lime_features, fraud_flags) ==
    LET soft == fraud_flags.severity = "soft"
        first == IF soft
                 THEN << [order |-> 1,
                          question |-> [kb_question_of |-> "fraud_verification"],
                          feature |-> "fraud_verification",
                          follow_up |-> [kb_follow_up_of |-> "fraud_verification"]] >>
                 ELSE <<>>
        negative == Take(Negative(lime_features), 5)
    IN  FeatureQuestions(negative, Len(negative),
                         [questions |-> first, order |-> IF soft THEN 2 ELSE 1]).questions

\* a variant that keeps repeated entries
UniqueByKeepingAll(s, keys) == s

\* the entries of s that no earlier entry equals under key, in order
RECURSIVE UniqueBy(_, _)
UniqueBy(s, keys) ==
    IF s = <<>> THEN <<>>
    ELSE LET rest == UniqueBy(SubSeq(s, 1, Len(s) - 1), SubSeq(keys, 1, Len(keys) - 1))
         IN  IF \E i \in 1..(Len(s) - 1) : keys[i] = keys[Len(s)]
             THEN rest ELSE Append(rest, s[Len(s)])

RECURSIVE Flatten(_)
Flatten(ss) == IF ss = <<>> THEN <<>> ELSE Head(ss) \o Flatten(Tail(ss))

MaxDocuments == 6

\* a variant that asks for a standard document when nothing was found
generate_documents_with_default(lime_features) ==
    LET negative == Take(Negative(lime_features), 4)
        docs == Flatten([i \in 1..Len(negative) |->
                    IF InKnowledge(negative[i].feature)
                    THEN KnowledgeDocuments(negative[i].feature.name) ELSE <<>>])
    IN  IF docs = <<>> THEN <<"Bank statements (3 months)">>
        ELSE Take(UniqueBy(docs, docs), MaxDocuments)

generate_documents(lime_features) ==
    LET negative == Take(Negative(lime_features), 4)
        docs == Flatten([i \in 1..Len(negative) |->
                    IF InKnowledge(negative[i].feature)
                    THEN KnowledgeDocuments(negative[i].feature.name) ELSE <<>>])
    IN  Take(UniqueBy(docs, docs), MaxDocuments)

Feasibility(action) ==
    IF action \in ImmediateActions THEN "immediate"
    ELSE IF action \in WaitOrMonthActions THEN "long-term"
    ELSE "short-term"

\* list.sort(key=impact), stable and ascending
InsertByImpactAscending(x, t) ==
    LET k == Cardinality({i \in 1..Len(t) : t[i].impact <= x.impact})
    IN  SubSeq(t, 1, k) \o <<x>> \o SubSeq(t, k + 1, Len(t))

RECURSIVE SortByImpactAscending(_)
SortByImpactAscending(s) ==
    IF s = <<>> THEN <<>>
    ELSE InsertByImpactAscending(s[Len(s)],
                                 SortByImpactAscending(SubSeq(s, 1, Len(s) - 1)))

MaxActions == 6

\* a variant that leaves the actions in the order they were collected
generate_actions_unsorted(lime_features) ==
    LET negative == Take(Negative(lime_features), 4)
        ActionsOf(f) ==
            IF InKnowledge(f.feature)
            THEN LET acts == KnowledgeActions(f.feature.name)
                 IN  [j \in 1..Len(acts) |->
                        [action |-> acts[j], feasibility |-> Feasibility(acts[j]),
                         feature |-> f.feature.name, impact |-> f.contribution]]
            ELSE <<>>
        actions == Flatten([i \in 1..Len(negative) |-> ActionsOf(negative[i])])
        unique == UniqueBy(actions, [i \in 1..Len(actions) |-> actions[i].action])
    IN  Take(unique, MaxActions)

generate_actions(lime_features) ==
    LET negative == Take(Negative(lime_features), 4)
        ActionsOf(f) ==
            IF InKnowledge(f.feature)
            THEN LET acts == KnowledgeActions(f.feature.name)
                 IN  [j \in 1..Len(acts) |->
                        [action |-> acts[j], feasibility |-> Feasibility(acts[j]),
                         feature |-> f.feature.name, impact |-> f.contribution]]
            ELSE <<>>
        actions == Flatten([i \in 1..Len(negative) |-> ActionsOf(negative[i])])
        unique == UniqueBy(actions, [i \in 1..Len(actions) |-> actions[i].action])
    IN  Take(SortByImpactAscending(unique), MaxActions)

RECURSIVE SumPdImprovement(_)
SumPdImprovement(negative) ==
    IF negative = <<>> THEN 0
    ELSE (IF InPdRules(Head(negative).feature)
          THEN PD_IMPROVEMENT_RULES(Head(negative).feature.name) ELSE 0)
         + SumPdImprovement(Tail(negative))

MinPotentialPd == 30

\* a variant that adds up the weights of every negative attribution
estimate_pd_improvement_all_negatives(lime_features, current_pd) ==
    LET total_improvement == SumPdImprovement(Negative(lime_features))
    IN  [current_pd |-> current_pd,
         potential_pd |-> Max(MinPotentialPd, current_pd - total_improvement),
         improvement |-> total_improvement,
         note |-> "all recommended actions"]

\* the three percentages, in tenths of a percent (= thousandths of PD)
estimate_pd_improvement(lime_features, current_pd) ==
    LET total_improvement == SumPdImprovement(Take(Negative(lime_features), 5))
    IN  [current_pd |-> current_pd,
         potential_pd |-> Max(MinPotentialPd, current_pd - total_improvement),
         improvement |-> total_improvement,
         note |-> "all recommended actions"]

analyze_borderline_application(pd_score, lime_features, fraud_flags) ==
    LET fraud_status == check_fraud_severity(fraud_flags)
    IN  IF fraud_status = "REJECT"
        THEN [status |-> "ok",
              recommendation |-> "REJECT",
              explanation |-> [kind |-> "hard_fraud", reasons |-> <<>>],
              interview_questions |-> <<>>,
              documents_needed |-> <<>>,
              improvement_actions |-> <<>>,
              pd_improvement_estimate |-> <<>>]
        ELSE IF LacksContribution(lime_features)
        THEN [status |-> "raised", exception |-> "KeyError"]
        ELSE [status |-> "ok",
              recommendation |-> "MANUAL_REVIEW",
              explanation |-> generate_explanation(lime_features, fraud_status),
              interview_questions |-> generate_questions(lime_features, fraud_flags),
              documents_needed |-> generate_documents(lime_features),
              improvement_actions |-> generate_actions(lime_features),
              pd_improvement_estimate |-> estimate_pd_improvement(lime_features, pd_score)]

(***************************************************************************)
(* interview_questioner.py: generate_interview_questions                   *)
(***************************************************************************)
\* abs(f.get("weight", 0)) > 0.05 (weights in thousandths)
HighImpact(f) == "weight" \in DOMAIN f /\ Abs(f.weight) > 50

\* "HIGH" if name in [f["feature"] for f in high_impact] else "MEDIUM"
ImpactPriority(lime_features, name) ==
    IF \E i \in 1..Len(lime_features) :
          HighImpact(lime_features[i]) /\ lime_features[i].feature = Desc("", "", name, "")
    THEN "HIGH" ELSE "MEDIUM"

\* a comparison or a division on None or a string raises; the values are
\* numbers whenever the mapping comes from CustomerApplication
InterviewRaises(d) ==
    LET NotNum(x) == x.k # "num"
        income == Get(d, "monthly_income", Num(100))
        IncomePositive == income.k = "num" /\ income.v > 0
    IN  \/ Has(d, "monthly_income") /\ NotNum(Get(d, "employment_years", Num(0)))
        \/ Has(d, "fixed_monthly_expenses")
             /\ (NotNum(income) \/ (IncomePositive /\ NotNum(d["fixed_monthly_expenses"])))
        \/ Has(d, "debt_to_income_ratio") /\ NotNum(d["debt_to_income_ratio"])
        \/ Has(d, "credit_score") /\ NotNum(d["credit_score"])
        \/ Has(d, "utility_bill_on_time_ratio") /\ NotNum(d["utility_bill_on_time_ratio"])
        \/ Has(d, "savings_balance")
             /\ (NotNum(income) \/ (IncomePositive /\ NotNum(d["savings_balance"])))
        \/ Has(d, "loan_amount")
             /\ (NotNum(income) \/ (IncomePositive /\ NotNum(d["loan_amount"])))
        \/ Has(d, "loan_duration_months")
             /\ \/ NotNum(d["loan_duration_months"])
                \/ d["loan_duration_months"].v > 0
                     /\ NotNum(Get(d, "loan_amount", Num(100)))
                \/ NotNum(income)

\* the question blocks in source order: the feature asked about, its
\* category, whether it is asked and its priority
InterviewBlocks(d, lime_features, pd_score) ==
    LET income == Get(d, "monthly_income", Num(100)).v
        months_low == IF income > 0
                      THEN d["savings_balance"].v < 3 * income
                      ELSE TRUE
    IN  << [feature |-> "monthly_income", category |-> "Income",
            asked |-> Has(d, "monthly_income"),
            priority |-> ImpactPriority(lime_features, "monthly_income")],
           [feature |-> "employment_years", category |-> "Employment",
            asked |-> Has(d, "monthly_income")
                      /\ Get(d, "employment_years", Num(0)).v < 200,
            priority |-> ImpactPriority(lime_features, "employment_years")],
           [feature |-> "fixed_monthly_expenses", category |-> "Expenses",
            asked |-> Has(d, "fixed_monthly_expenses"),
            priority |-> ImpactPriority(lime_features, "fixed_monthly_expenses")],
           [feature |-> "debt_to_income_ratio", category |-> "Debt",
            asked |-> Has(d, "debt_to_income_ratio"),
            priority |-> ImpactPriority(lime_features, "debt_to_income_ratio")],
           [feature |-> "credit_score", category |-> "Credit History",
            asked |-> Has(d, "credit_score") /\ d["credit_score"].v < 70000,
            priority |-> ImpactPriority(lime_features, "credit_score")],
           [feature |-> "utility_bill_on_time_ratio", category |-> "Payment History",
            asked |-> Has(d, "utility_bill_on_time_ratio")
                      /\ d["utility_bill_on_time_ratio"].v < 98,
            priority |-> "MEDIUM"],
           [feature |-> "savings_balance", category |-> "Financial Stability",
            asked |-> Has(d, "savings_balance"),
            priority |-> IF months_low THEN "MEDIUM" ELSE "LOW"],
           [feature |-> "loan_amount", category |-> "Loan Purpose",
            asked |-> Has(d, "loan_amount"),
            priority |-> "HIGH"],
           [feature |-> "loan_duration_months", category |-> "Loan Terms",
            asked |-> Has(d, "loan_duration_months"),
            priority |-> "HIGH"],
           [feature |-> "overall_risk", category |-> "Risk Mitigation",
            asked |-> pd_score > 250,
            priority |-> "HIGH"],
           [feature |-> "overall", category |-> "Additional Information",
            asked |-> TRUE,
            priority |-> "MEDIUM"] >>

\* the questions appended by the first n blocks; order counts from 0
RECURSIVE AskedQuestions(_, _)
AskedQuestions(blocks, n) ==
    IF n = 0 THEN <<>>
    ELSE LET prev == AskedQuestions(blocks, n - 1)
             b == blocks[n]
         IN  IF b.asked
             THEN Append(prev, [order |-> Len(prev), feature |-> b.feature,
                                category |-> b.category,
                                question |-> [about |-> b.feature],
                                purpose |-> [about |-> b.feature],
                                follow_up |-> [about |-> b.feature],
                                priority |-> b.priority])
             ELSE prev

MaxInterviewQuestions == 10

generate_interview_questions(d, lime_features, pd_score) ==
    IF InterviewRaises(d) THEN [status |-> "raised", questions |-> <<>>]
    ELSE LET blocks == InterviewBlocks(d, lime_features, pd_score)
         IN  [status |-> "ok",
              questions |-> Take(AskedQuestions(blocks, Len(blocks)),
                                 MaxInterviewQuestions)]

(***************************************************************************)
(* api.py: analyze_application, from the final data for analysis on        *)
(***************************************************************************)
\* get_explainer() returns a LoanLimeExplainer, which has explain but no
\* explain_instance: the call analyze_application_complete makes on it
\* raises AttributeError
ApiExplainer == [kind |-> "raises", as_list |-> <<>>]

FraudSeverity(analysis) ==
    IF analysis.fraud_decision = "BLOCK" THEN "hard"
    ELSE IF analysis.fraud_score >= 25 THEN "soft" ELSE "none"

decision_map(decision) ==
    CASE decision = "APPROVED" -> "APPROVE"
      [] decision = "REJECTED" -> "REJECT"
      [] decision = "MIDDLE" -> "MANUAL_REVIEW"
      [] decision = "BLOCKED_FRAUD" -> "REJECT"
      [] OTHER -> "MANUAL_REVIEW"

\* a variant that adds up the reductions of all the suggestions
RECURSIVE SumOfReductions(_, _)
SumOfReductions(current, ai_suggestions) ==
    IF ai_suggestions = <<>> THEN 0
    ELSE (current - Head(ai_suggestions).new_estimated_pd)
         + SumOfReductions(current, Tail(ai_suggestions))

HeadlineEstimateCombined(analysis, ai_suggestions) ==
    LET current == analysis.pd_percent
        joint == Max(0, current - SumOfReductions(current, ai_suggestions))
    IN  [current_pd |-> RoundDiv(current, 10),
         potential_pd |-> RoundDiv(joint, 10),
         improvement |-> IF current > 0
                         THEN RoundDiv((current - joint) * 1000, current)
                         ELSE 0,
         note |-> "all actions"]

\* percentages in tenths of a percent
HeadlineEstimate(analysis, ai_suggestions) ==
    IF ai_suggestions # <<>>
    THEN LET best_new_pd == ai_suggestions[1].new_estimated_pd  \* 0.01 %
             current == analysis.pd_percent                      \* 0.01 %
         IN  [current_pd |-> RoundDiv(current, 10),
              potential_pd |-> RoundDiv(best_new_pd, 10),
              improvement |-> IF current > 0
                              THEN RoundDiv((current - best_new_pd) * 1000, current)
                              ELSE 0,
              note |-> "top-ranked action"]
    ELSE [current_pd |-> RoundDiv(analysis.pd_percent, 10),
          potential_pd |-> RoundDiv(analysis.pd_percent, 10),
          improvement |-> 0,
          note |-> "no opportunities"]

ApiError == [status |-> "error", http |-> 500]

analyze_application(d, m) ==
    LET analysis == analyze_application_complete(d, m, ApiExplainer)
    IN  IF analysis.status = "raised" THEN ApiError
        ELSE
        LET severity == FraudSeverity(analysis)
            borderline_result ==
                analyze_borderline_application(
                    analysis.pd_score, analysis.lime_features,
                    [severity |-> severity, details |-> analysis.fraud])
            interview == generate_interview_questions(
                             d, analysis.lime_features, analysis.pd_score)
            ai_suggestions == generate_ai_suggestions(
                                  d, m, analysis.pd_score, analysis.lime_features)
        IN  IF borderline_result.status = "raised" \/ interview.status = "raised"
            THEN ApiError
            ELSE [status |-> "ok",
                  analysis |-> analysis,
                  borderline_result |-> borderline_result,
                  ai_suggestions |-> ai_suggestions,
                  response |->
                     [pd_score |-> analysis.pd_percent,
                      risk_band |-> analysis.risk_band,
                      fraud_flag |-> analysis.fraud_decision = "BLOCK",
                      fraud_severity |-> severity,
                      recommendation |-> decision_map(analysis.decision),
                      explanation |-> analysis.summary,
                      interview_questions |->
                         [i \in 1..Len(interview.questions) |->
                            [order |-> interview.questions[i].order,
                             question |-> interview.questions[i].question,
                             feature |-> interview.questions[i].feature,
                             purpose |-> interview.questions[i].purpose,
                             follow_up |-> interview.questions[i].follow_up,
                             category |-> interview.questions[i].category]],
                      documents_needed |-> borderline_result.documents_needed,
                      improvement_actions |->
                         [i \in 1..Len(ai_suggestions) |->
                            [action |-> ai_suggestions[i].suggestion,
                             feasibility |-> ai_suggestions[i].feasibility,
                             feature |-> ai_suggestions[i].feature,
                             impact |-> ai_suggestions[i].pd_reduction]],
                      pd_improvement_estimate |->
                         HeadlineEstimate(analysis, ai_suggestions)]]

\* the model.predict_proba invocations of one analyze request: the
\* engine's, and the suggester's when the request gets that far
ApiProbaCalls(response, d, m) ==
    1 + (IF response.status = "ok"
         THEN SuggesterProbaCalls(d, m, Len(FEATURE_TWEAKS)) ELSE 0)

(***************************************************************************)
(* api.py: the document store, upload, background extraction, status       *)
(*                                                                         *)
(* An application id is <<prefix, n>>: <<"CR", n>> is the n-th id          *)
(* analyze_application generated ("CR-<year>-<uuid>"), any other prefix    *)
(* is an id a client made up for its uploads.  A document id is the        *)
(* number of the upload (str(uuid.uuid4())[:8] is taken as fresh).         *)
(* documents_store maps the ids in its domain to the list of their         *)
(* documents; a document sits in one list at a time, so the dict objects   *)
(* the lists share in Python need no identity here.                        *)
(***************************************************************************)
AppId(n) == <<"CR", n>>

\* key.startswith('CR-')
StartsWithCR(key) == key[1] = "CR"

\* a text holding a number, with a decimal comma or point
NumStr(n) == [k |-> "numstr", v |-> n]

\* float(extracted_value.replace(',', '.')) for a text, float(...) otherwise
ParsesAsNumber(x) == x.k \in {"num", "numstr"}

\* field_mapping.get(extracted_field.lower()); "" stands for None
field_mapping(extracted_field) ==
    CASE extracted_field = "credit_score" -> "credit_score"
      [] extracted_field \in {"monthly_income", "income", "salary", "salaire",
                              "total_income"} -> "monthly_income"
      [] extracted_field \in {"savings", "savings_balance", "balance",
                              "account_balance", "closing_balance"} -> "savings_balance"
      [] extracted_field = "amount_due" -> "loan_amount"
      [] extracted_field \in {"consumption", "expenses"} -> "fixed_monthly_expenses"
      [] OTHER -> ""

\* the loop over extracted_fields.items(): pairs <<field, value>> in dict order
RECURSIVE UseExtractedFields(_, _)
UseExtractedFields(customer_data, pairs) ==
    IF pairs = <<>> THEN customer_data
    ELSE LET mapped_field == field_mapping(Head(pairs)[1])
             extracted_value == Head(pairs)[2]
         IN  UseExtractedFields(
                 IF mapped_field # "" /\ ParsesAsNumber(extracted_value)
                 THEN [customer_data EXCEPT ![mapped_field] = Num(extracted_value.v)]
                 ELSE customer_data,
                 Tail(pairs))

\* the loop over docs_to_check
RECURSIVE UseExtractedDocuments(_, _)
UseExtractedDocuments(customer_data, docs) ==
    IF docs = <<>> THEN customer_data
    ELSE UseExtractedDocuments(
             IF Head(docs).status \in {"extracted", "extracted_with_issues"}
             THEN UseExtractedFields(customer_data, Head(docs).extracted_data)
             ELSE customer_data,
             Tail(docs))

\* the documents of the client-made ids, in the order of the given ids
RECURSIVE DocumentsOf(_, _)
DocumentsOf(store, ids) ==
    IF ids = {} THEN <<>>
    ELSE LET id == CHOOSE k \in ids : TRUE
         IN  store[id] \o DocumentsOf(store, ids \ {id})

\* analyze_application, lines 164-187: the documents of every id that does
\* not start with CR- are moved to the list of the new application id
TakeOverDocuments(store, app_id) ==
    LET created == IF app_id \in DOMAIN store THEN store ELSE store @@ (app_id :> <<>>)
        temp_app_ids == {key \in DOMAIN created : ~StartsWithCR(key)}
    IN  [key \in DOMAIN created |->
            IF key = app_id THEN created[app_id] \o DocumentsOf(created, temp_app_ids)
            ELSE IF key \in temp_app_ids THEN <<>>
            ELSE created[key]]

\* doc_info of upload_document
PendingDocument(file_id) ==
    [id |-> file_id, status |-> "pending", verified |-> FALSE,
     extracted_data |-> <<>>]

\* what extraction and validation of a file can give
ExtractionOutcomes ==
    {[status |-> "extracted",
      extracted_data |-> << <<"name", BadStr>>, <<"salary", NumStr(350000)>> >>],
     [status |-> "extracted_with_issues",
      extracted_data |-> << <<"credit_score", BadStr>> >>],
     [status |-> "failed", extracted_data |-> <<>>]}

\* the first document of the list with the id takes the extraction result
UpdateFirst(docs, file_id, outcome) ==
    LET hits == {i \in 1..Len(docs) : docs[i].id = file_id}
    IN  IF hits = {} THEN docs
        ELSE LET first == CHOOSE i \in hits : \A j \in hits : i <= j
             IN  [docs EXCEPT ![first] =
                     [@ EXCEPT !.status = outcome.status,
                               !.extracted_data = outcome.extracted_data]]

\* _extract_document_background, lines 455-495: the store after the task
\* wrote its result
extract_document_background(store, application_id, file_id, outcome) ==
    IF application_id \in DOMAIN store
    THEN [store EXCEPT ![application_id] = UpdateFirst(@, file_id, outcome)]
    ELSE store @@ (application_id :>
                     << [id |-> file_id, status |-> outcome.status,
                         extracted_data |-> outcome.extracted_data] >>)

NotFound == [http |-> 404]

FoundDocument(doc) ==
    [http |-> 200, id |-> doc.id, status |-> doc.status,
     extracted_data |-> doc.extracted_data]

\* the documents of every application, the given application's first
SearchOrder(store, application_id) ==
    (IF application_id \in DOMAIN store THEN store[application_id] ELSE <<>>)
    \o DocumentsOf(store, DOMAIN store \ {application_id})

get_document_status(store, application_id, document_id) ==
    LET docs == SearchOrder(store, application_id)
        hits == {i \in 1..Len(docs) : docs[i].id = document_id}
    IN  IF hits = {} THEN NotFound
        ELSE FoundDocument(docs[CHOOSE i \in hits : \A j \in hits : i <= j])

(***************************************************************************)
(* Placeholders for the inputs a call does not take                        *)
(***************************************************************************)
NoRaw == [f \in Fields |-> Absent]
NoModel == [status |-> "unused"]
NoExplainer == [kind |-> "unused"]
NoOut == [status |-> "none"]
NoFraudFlags == [severity |-> "unused"]
NoHeap == <<>>
NoDocuments == <<>>
NoApplications == <<>>
NoTasks == <<>>

\* the process right after start-up: no call counted, nothing stored
FreshProcess ==
    /\ proba_calls = 0
    /\ heap = NoHeap
    /\ documents_store = NoDocuments
    /\ applications_store = NoApplications
    /\ tasks = NoTasks

\* a mapping holding the given fields and no other key
Mapping(r) == [f \in Fields |-> IF f \in DOMAIN r THEN r[f] ELSE Absent]

(***************************************************************************)
(* risk_band_from_pd called on every approval probability                  *)
(***************************************************************************)
Probabilities == 0..1000

InitBand ==
    /\ pc = "band_call"
    /\ p_in \in Probabilities
    /\ raw = NoRaw /\ model = NoModel /\ explainer = NoExplainer
    /\ lime_in = <<>>
    /\ flags_in = NoFraudFlags
    /\ out = NoOut
    /\ FreshProcess

RiskBand ==
    /\ pc = "band_call"
    /\ out' = [status |-> "ok", band |-> risk_band_from_pd(p_in)]
    /\ pc' = "band_done"
    /\ UNCHANGED <<raw, p_in, model, explainer, lime_in, flags_in>>
    /\ UNCHANGED <<proba_calls, heap>>
    /\ UNCHANGED storeVars

NextBand == RiskBand

SpecBand == InitBand /\ [][NextBand]_vars

\* C2: every approval probability in [0,1] gets exactly one band: APPROVED
\* exactly when p >= 0.70, REJECTED exactly when p <= 0.40, MIDDLE exactly
\* when 0.40 < p < 0.70.
BandPartition ==
    pc = "band_done" =>
        /\ out.band \in {"APPROVED", "REJECTED", "MIDDLE"}
        /\ (out.band = "APPROVED") <=> (p_in >= 700)
        /\ (out.band = "REJECTED") <=> (p_in <= 400)
        /\ (out.band = "MIDDLE") <=> (400 < p_in /\ p_in < 700)

BandBoundaryReached ==
    pc = "band_done" /\ p_in = 700 /\ out.band = "APPROVED"

(***************************************************************************)
(* fraud_check called on application mappings, malformed ones included     *)
(***************************************************************************)
FraudInputs ==
    [is_fraud : {Absent, Num(0), Num(100), Num(190), NoneVal},
     document_mismatch_flag : {Num(0), Num(100)},
     metadata_anomaly_score : {Absent, Num(79), Num(80)},
     income_inflation_ratio : {Absent, Num(150), Num(249), Num(250)},
     geo_location_mismatch : {Num(0), Num(100), BadStr},
     monthly_income : {NoneVal, Num(0), Num(300000), BadStr},
     fixed_monthly_expenses : {Absent, Num(200000), Num(400000)},
     application_velocity : {Num(200), Num(300)},
     missed_payments_12m : {Absent, Num(300)},
     utility_bill_on_time_ratio : {Num(29), Num(30), NoneVal}]

InitFraud ==
    /\ pc = "fraud_call"
    /\ raw \in {Mapping(r) : r \in FraudInputs}
    /\ p_in = 0 /\ model = NoModel /\ explainer = NoExplainer
    /\ lime_in = <<>>
    /\ flags_in = NoFraudFlags
    /\ out = NoOut
    /\ FreshProcess

FraudCheck ==
    /\ pc = "fraud_call"
    /\ out' = fraud_check(raw)
    /\ pc' = "fraud_done"
    /\ UNCHANGED <<raw, p_in, model, explainer, lime_in, flags_in>>
    /\ UNCHANGED <<proba_calls, heap>>
    /\ UNCHANGED storeVars

NextFraud == FraudCheck

SpecFraud == InitFraud /\ [][NextFraud]_vars

\* C5: fraud_check never raises, whatever the mapping holds: a missing, None
\* or non-numeric fraud-signal field is coerced and a {decision, fraud_score,
\* flags} record is returned.
FraudCheckNeverRaises ==
    pc = "fraud_done" => out.status = "ok"

HasFlag(flags, name) == \E i \in 1..Len(flags) : flags[i].name = name

\* C23 as stated: expenses_gt_income is flagged exactly when monthly_income
\* and fixed_monthly_expenses are both present and fixed_monthly_expenses >
\* monthly_income, monthly_income = 0 included (numeric values; a field that
\* is missing or None is not present).
ExpensesAboveIncomeFlagged ==
    (pc = "fraud_done" /\ out.status = "ok") =>
        LET income == raw["monthly_income"]
            expenses == raw["fixed_monthly_expenses"]
        IN  /\ (income.k = "num" /\ expenses.k = "num") =>
                  (HasFlag(out.flags, "expenses_gt_income") <=> expenses.v > income.v)
            /\ (income.k \in {"absent", "none"} \/ expenses.k \in {"absent", "none"}) =>
                  ~HasFlag(out.flags, "expenses_gt_income")

\* the weight the rule behind a flag carries
RuleWeight(name) ==
    CASE name = "explicit_fraud_label" -> 60
      [] name \in {"document_mismatch", "metadata_anomaly_high",
                   "income_inflation_extreme"} -> 35
      [] name \in {"geo_location_mismatch", "expenses_gt_income",
                   "rapid_multiple_applications"} -> 15
      [] name \in {"many_missed_payments_12m", "low_utility_on_time_ratio",
                   "income_inflation_moderate"} -> 12

RECURSIVE SumRuleWeights(_)
SumRuleWeights(flags) ==
    IF flags = <<>> THEN 0
    ELSE RuleWeight(Head(flags).name) + SumRuleWeights(Tail(flags))

\* C6: fraud_score is min(1.0, sum of the weights of exactly the matched
\* rules), each matched rule flagged once; it lies in [0,1] and is 0 exactly
\* when no rule matched.
FraudScoreIsClampedSum ==
    (pc = "fraud_done" /\ out.status = "ok") =>
        /\ \A i \in 1..Len(FraudRules) :
              RuleMatches(FraudRules[i].name, raw) <=>
                  (\E j \in 1..Len(out.flags) : out.flags[j].name = FraudRules[i].name)
        /\ \A i, j \in 1..Len(out.flags) :
              out.flags[i].name = out.flags[j].name => i = j
        /\ out.fraud_score = Min(100, SumRuleWeights(out.flags))
        /\ 0 <= out.fraud_score /\ out.fraud_score <= 100
        /\ (out.fraud_score = 0) <=> (out.flags = <<>>)

FraudScoreClampReached ==
    /\ pc = "fraud_done" /\ out.status = "ok"
    /\ SumRuleWeights(out.flags) > 100
    /\ out.fraud_score = 100

(***************************************************************************)
(* analyze_application_complete called with any mapping, classifier and    *)
(* explainer                                                               *)
(***************************************************************************)
EngineInputs ==
    [is_fraud : {Absent, Num(100), NoneVal},
     document_mismatch_flag : {Num(0), Num(100)},
     metadata_anomaly_score : {Num(79), Num(80)},
     income_inflation_ratio : {Num(100), Num(150), Num(250)},
     geo_location_mismatch : {Num(0), Num(100)},
     monthly_income : {Num(300000)},
     fixed_monthly_expenses : {Num(200000), Num(400000)},
     application_velocity : {Num(0), Num(300)},
     missed_payments_12m : {Num(0), Num(300)},
     utility_bill_on_time_ratio : {Num(29), Num(100)},
     credit_score : {Num(68000)}]

\* approval probabilities around both thresholds
EngineProbabilities == {400, 401, 699, 700, 900}

EngineModels ==
    {[status |-> "raises", classes |-> "01", proba |-> <<500, 500>>]}
    \cup {[status |-> "ok", classes |-> c, proba |-> <<1000 - p, p>>] :
             c \in {"01", "absent"}, p \in EngineProbabilities}
    \cup {[status |-> "ok", classes |-> "10", proba |-> <<p, 1000 - p>>] :
             p \in EngineProbabilities}

EngineExplainers ==
    {[kind |-> "none", as_list |-> <<>>],
     [kind |-> "raises", as_list |-> <<>>],
     [kind |-> "ok", as_list |-> <<>>],
     [kind |-> "ok",
      as_list |-> << <<Desc("", "num__", "monthly_income", ""), 3>>,
                     <<Desc("", "", "credit_score", " <= 700.00"), -8>> >>]}

InitEngine ==
    /\ pc = "engine_call"
    /\ raw \in {Mapping(r) : r \in EngineInputs}
    /\ model \in EngineModels
    /\ explainer \in EngineExplainers
    /\ p_in = 0
    /\ lime_in = <<>>
    /\ flags_in = NoFraudFlags
    /\ out = NoOut
    /\ FreshProcess

AnalyzeApplicationComplete ==
    /\ pc = "engine_call"
    /\ out' = analyze_application_complete(raw, model, explainer)
    /\ proba_calls' = proba_calls + 1
    /\ pc' = "engine_done"
    /\ UNCHANGED <<raw, p_in, model, explainer, lime_in, flags_in, heap>>
    /\ UNCHANGED storeVars

NextEngine == AnalyzeApplicationComplete

SpecEngine == InitEngine /\ [][NextEngine]_vars

\* the hard rules, read off the application mapping
HardRuleMatched(d) ==
    \/ d["is_fraud"].k = "num" /\ d["is_fraud"].v \div 100 = 1
    \/ d["document_mismatch_flag"].k = "num" /\ d["document_mismatch_flag"].v \div 100 = 1
    \/ d["metadata_anomaly_score"].k = "num" /\ d["metadata_anomaly_score"].v >= 80
    \/ d["income_inflation_ratio"].k = "num" /\ d["income_inflation_ratio"].v >= 250

\* C1: the final decision is BLOCKED_FRAUD if and only if a hard rule
\* (explicit fraud label, document mismatch, metadata anomaly >= 0.80, income
\* inflation >= 2.50) matched: soft flags alone never block, and a hard flag
\* blocks whatever the risk band is.
BlockedIffHardRule ==
    (pc = "engine_done" /\ out.status = "ok") =>
        /\ (out.decision = "BLOCKED_FRAUD") <=> HardRuleMatched(raw)
        /\ (out.decision = "BLOCKED_FRAUD") <=>
              (\E i \in 1..Len(out.fraud.flags) : out.fraud.flags[i].severity = "hard")

HardFlagBlocksApprovedBand ==
    /\ pc = "engine_done" /\ out.status = "ok"
    /\ out.risk_band = "APPROVED"
    /\ out.decision = "BLOCKED_FRAUD"

\* C8: when the classifier's probability call fails the engine returns no
\* result: the failure reaches the caller and nothing carries a defaulted
\* score, band or decision.
ClassifierFailureIsSurfaced ==
    (pc = "engine_done" /\ model.status = "raises") =>
        /\ out.status = "raised"
        /\ out.where = "predict_proba"
        /\ DOMAIN out \cap {"decision", "risk_band", "pd_score", "pd_percent"} = {}

ClassifierFailureReached ==
    pc = "engine_done" /\ model.status = "raises" /\ out.status = "raised"

HasNegativeWeight(f) == f.weight < 0

\* C15: for a non-blocked application the explanation in the result is
\* built from the top 1-2 negative attributions: it cites the two
\* highest-ranked negative features when there are two or more, the single
\* one when there is exactly one, and is the generic manual-review message
\* when there is none; a positive attribution is never cited.
ExplanationCitesTopNegatives ==
    (pc = "engine_done" /\ out.status = "ok" /\ out.decision # "BLOCKED_FRAUD") =>
        LET negative == SelectSeq(out.lime_features, HasNegativeWeight)
        IN  IF negative = <<>>
            THEN out.lime_features = <<>> /\ out.summary.kind = "manual_review"
            ELSE out.summary.names =
                    [i \in 1..Min(2, Len(negative)) |->
                        CleanSummaryName(negative[i].feature)]

(***************************************************************************)
(* LoanLimeExplainer.explain called on the explanations LIME can return    *)
(***************************************************************************)
MaxAttributions == 3

Descriptors ==
    {Desc("", "", "monthly_income", " <= 50000.00"),
     Desc("0.00 < ", "", "credit_score", " <= 700.00"),
     Desc("", "", "savings_balance", ""),
     Desc("", "", "utility_bill_on_time_ratio", " > 0.50")}

\* weights in thousandths; two share an absolute value
Weights == {-80, -30, 30, 80}

\* an explanation names every feature at most once
AsLists ==
    UNION {{s \in [1..n -> Descriptors \X Weights] :
               \A i, j \in 1..n : s[i][1] = s[j][1] => i = j} :
           n \in 0..MaxAttributions}

InitExplain ==
    /\ pc = "explain_call"
    /\ explainer \in {[kind |-> "raises", as_list |-> <<>>]}
                     \cup {[kind |-> "ok", as_list |-> l] : l \in AsLists}
    /\ raw = NoRaw /\ model = NoModel /\ p_in = 0
    /\ lime_in = <<>>
    /\ flags_in = NoFraudFlags
    /\ out = NoOut
    /\ FreshProcess

Explain ==
    /\ pc = "explain_call"
    /\ out' = explain(explainer)
    /\ pc' = "explain_done"
    /\ UNCHANGED <<raw, p_in, model, explainer, lime_in, flags_in>>
    /\ UNCHANGED <<proba_calls, heap>>
    /\ UNCHANGED storeVars

NextExplain == Explain

SpecExplain == InitExplain /\ [][NextExplain]_vars

BareFeatureNameRecovered ==
    (pc = "explain_done" /\ out.status = "ok") =>
        \A i \in 1..Len(out.lime_features) :
            LET entry == out.lime_features[i]
            IN  /\ \E k \in 1..Len(explainer.as_list) :
                      explainer.as_list[k][1] = entry.description
                /\ entry.feature = Desc("", "", entry.description.name, "")

(***************************************************************************)
(* generate_ai_suggestions called on applications holding a few of the     *)
(* tunable features, with a classifier that answers each perturbation      *)
(***************************************************************************)
MaxPresent == 2

\* the values a tunable feature takes when it is present
SuggestValues(f) ==
    CASE f = "monthly_income" -> {Num(300000)}
      [] f = "fixed_monthly_expenses" -> {Num(200000)}
      [] f = "savings_balance" -> {Num(0), Num(500000)}
      [] f = "employment_years" -> {Num(100), NoneVal}
      [] f = "credit_score" -> {Num(68000)}
      [] f = "utility_bill_on_time_ratio" -> {Num(90)}
      [] f = "loan_amount" -> {Num(1000000)}
      [] f = "loan_duration_months" -> {Num(2400)}
      [] f = "debt_to_income_ratio" -> {Num(35)}

\* default probabilities (thousandths) of the unmodified application and of
\* a perturbed one
BasePDs == {0, 800, 1000}
TweakedPDs == {400, 799, 998, 999, 1000}

Outcome(pd) == [status |-> "ok", proba |-> <<pd, 1000 - pd>>]
TweakOutcomes == {[status |-> "raises", proba |-> <<0, 0>>]}
                 \cup {Outcome(pd) : pd \in TweakedPDs}

TweakOf(f) == FEATURE_TWEAKS[CHOOSE i \in 1..Len(FEATURE_TWEAKS) :
                                FEATURE_TWEAKS[i].feature = f]

\* a perturbation that leaves the value as it was is the same input to the
\* classifier
SameInput(d, f) ==
    d[f].k = "num" /\ TweakedValue(TweakOf(f), d[f].v) = d[f].v

SuggestLimeLists ==
    {<<>>,
     << [feature |-> Desc("", "", "credit_score", " <= 700.00"), weight |-> -80],
        [feature |-> Desc("", "num__", "monthly_income", ""), weight |-> 30] >>,
     << [feature |-> Desc("", "", "monthly_income", ""), contribution |-> -80,
         description |-> Desc("", "", "monthly_income", " <= 50000.00")] >>}

InitSuggest ==
    /\ pc = "suggest_call"
    /\ \E present \in {S \in SUBSET TweakFeatures : Cardinality(S) <= MaxPresent} :
         \E vals \in [present -> UNION {SuggestValues(f) : f \in present}] :
           \E outs \in [present -> TweakOutcomes] :
             \E base \in BasePDs :
               /\ \A f \in present : vals[f] \in SuggestValues(f)
               /\ raw = [f \in Fields |-> IF f \in present THEN vals[f] ELSE Absent]
               /\ \A f \in present : SameInput(raw, f) => outs[f] = Outcome(base)
               /\ model = [status |-> "ok", classes |-> "01",
                           proba |-> <<base, 1000 - base>>,
                           tweaked |-> [f \in TweakFeatures |->
                                          IF f \in present THEN outs[f]
                                          ELSE Outcome(base)]]
    /\ lime_in \in SuggestLimeLists
    /\ flags_in = NoFraudFlags
    /\ explainer = NoExplainer /\ p_in = 0
    /\ out = NoOut
    /\ FreshProcess

GenerateAiSuggestions ==
    /\ pc = "suggest_call"
    /\ out' = [status |-> "ok",
               suggestions |-> generate_ai_suggestions(
                   raw, model, 1000 - model.proba[ApproveIdx(model)], lime_in)]
    /\ proba_calls' = proba_calls + SuggesterProbaCalls(raw, model, Len(FEATURE_TWEAKS))
    /\ pc' = "suggest_done"
    /\ UNCHANGED <<raw, p_in, model, explainer, lime_in, flags_in, heap>>
    /\ UNCHANGED storeVars

NextSuggest == GenerateAiSuggestions

SpecSuggest == InitSuggest /\ [][NextSuggest]_vars

BasePD == 1000 - model.proba[ApproveIdx(model)]
TweakedPD(f) == 1000 - model.tweaked[f].proba[ApproveIdx(model)]

\* C10: no returned suggestion has a pd_reduction of 0.1 percent or less: a
\* feature whose perturbation leaves PD unchanged or raises it is never
\* suggested, and nothing is suggested when the baseline PD is 0.
NoSuggestionBelowThreshold ==
    pc = "suggest_done" =>
        /\ \A i \in 1..Len(out.suggestions) :
             LET s == out.suggestions[i]
             IN  /\ s.pd_reduction > 1
                 /\ model.tweaked[s.feature].status = "ok"
                 /\ TweakedPD(s.feature) < BasePD
                 /\ (BasePD - TweakedPD(s.feature)) * 1000 > BasePD
        /\ BasePD = 0 => out.suggestions = <<>>

SmallGainLeftOut ==
    /\ pc = "suggest_done"
    /\ Len(out.suggestions) = 1
    /\ out.suggestions[1].pd_reduction = 2
    /\ \E f \in TweakFeatures :
         /\ Has(raw, f) /\ raw[f].k = "num"
         /\ model.tweaked[f].status = "ok"
         /\ BasePD - TweakedPD(f) = 1
         /\ \A i \in 1..Len(out.suggestions) : out.suggestions[i].feature # f

\* the features for which generate_ai_suggestions recorded a suggestion
\* before sorting and cutting
Survivors == SuggestionsAfter(raw, model, lime_in, Len(FEATURE_TWEAKS))
SurvivorFeatures == {Survivors[i].feature : i \in 1..Len(Survivors)}

\* C18: every catalog feature present in the input whose improvement_percent
\* = (baseline_pd - modified_pd) / baseline_pd * 100 is strictly greater
\* than 0.1 is recorded as a suggestion before the top-5 cut, and a feature
\* is discarded only when its improvement_percent is <= 0.1 (features whose
\* test or lookup raised are left aside).
EveryGainAboveThresholdRecorded ==
    pc = "suggest_done" =>
        \A f \in TweakFeatures :
            (/\ Has(raw, f) /\ raw[f].k = "num"
             /\ test_feature_improvement(raw, model, TweakOf(f)).status = "ok"
             /\ LimeContribution(lime_in, f).status = "ok")
            => ((f \in SurvivorFeatures)
                   <=> (BasePD > 0 /\ (BasePD - TweakedPD(f)) * 1000 > BasePD))

(***************************************************************************)
(* generate_ai_suggestions called on applications holding all nine         *)
(* tunable features, so that more suggestions survive than are returned    *)
(***************************************************************************)
\* the tunable features whose perturbation is always scored
RankedFeatures ==
    {"monthly_income", "fixed_monthly_expenses", "savings_balance",
     "credit_score", "utility_bill_on_time_ratio", "loan_amount"}

RankBasePD == 800
RankedOutcomes == {Outcome(800), Outcome(600), Outcome(400)}
FailingOutcomes == {[status |-> "raises", proba |-> <<0, 0>>], Outcome(700)}

InitSuggestAll ==
    /\ pc = "suggest_call"
    /\ \E years \in {Num(100), NoneVal} :
         raw = [f \in Fields |->
                  IF f = "employment_years" THEN years
                  ELSE IF f \in TweakFeatures
                  THEN (CHOOSE v \in SuggestValues(f) : v.k = "num" /\ v.v > 0)
                  ELSE Absent]
    /\ \E outs \in [RankedFeatures -> RankedOutcomes] :
         \E fails \in [TweakFeatures \ RankedFeatures -> FailingOutcomes] :
           model = [status |-> "ok", classes |-> "01",
                    proba |-> <<RankBasePD, 1000 - RankBasePD>>,
                    tweaked |-> [f \in TweakFeatures |->
                                   IF f \in RankedFeatures THEN outs[f]
                                   ELSE fails[f]]]
    /\ lime_in = <<>>
    /\ flags_in = NoFraudFlags
    /\ explainer = NoExplainer /\ p_in = 0
    /\ out = NoOut
    /\ FreshProcess

SpecSuggestAll == InitSuggestAll /\ [][NextSuggest]_vars

\* C11: generate_ai_suggestions returns at most 5 suggestions, in
\* non-increasing impact_score order, and they are the highest-ranked
\* survivors: no survivor left out has a larger impact_score than one that
\* is returned.
TopFiveByImpact ==
    pc = "suggest_done" =>
        LET res == out.suggestions
            surv == Survivors
        IN  /\ Len(res) <= 5
            /\ Len(res) = Min(5, Len(surv))
            /\ \A i \in 1..Len(res) : \E k \in 1..Len(surv) : surv[k] = res[i]
            /\ \A i, j \in 1..Len(res) : res[i].feature = res[j].feature => i = j
            /\ \A i \in 1..(Len(res) - 1) : res[i].impact_score >= res[i + 1].impact_score
            /\ \A k \in 1..Len(surv) :
                  (\A i \in 1..Len(res) : res[i] # surv[k])
                  => \A i \in 1..Len(res) : res[i].impact_score >= surv[k].impact_score

SurvivorCutOff ==
    /\ pc = "suggest_done"
    /\ LET surv == Survivors
       IN  /\ Len(surv) >= 7
           /\ Len(out.suggestions) = 5
           /\ surv[1].impact_score < surv[7].impact_score
           /\ \A i \in 1..5 : out.suggestions[i].feature # surv[1].feature

\* the test of a present feature raised: its perturbation could not be
\* built or could not be scored
FeatureFailed(f) ==
    /\ Has(raw, f)
    /\ test_feature_improvement(raw, model, TweakOf(f)).status = "raised"

\* C12: a failure while perturbing or re-scoring one catalog feature skips
\* only that feature: the call returns, with exactly the suggestions it
\* returns when the failing feature is absent from the input (the
\* classifier answering the other features as before).
FailureSkipsOnlyThatFeature ==
    pc = "suggest_done" =>
        /\ out.status = "ok"
        /\ \A f \in TweakFeatures :
              FeatureFailed(f) =>
                  /\ \A i \in 1..Len(out.suggestions) : out.suggestions[i].feature # f
                  /\ out.suggestions =
                        generate_ai_suggestions([raw EXCEPT ![f] = Absent], model,
                                                BasePD, lime_in)

FailureBesideSuggestions ==
    /\ pc = "suggest_done"
    /\ FeatureFailed("employment_years")
    /\ raw["employment_years"] = NoneVal
    /\ FeatureFailed("debt_to_income_ratio")
    /\ Len(out.suggestions) >= 3
    /\ \E i \in 1..Len(out.suggestions) :
          out.suggestions[i].feature = "loan_amount"

PresentTweakFeatures == {f \in TweakFeatures : Has(raw, f)}

\* C20 as stated: one request makes at most 9 invocations of the
\* classifier's probability function.
AtMostNineProbaCalls ==
    pc = "suggest_done" => proba_calls <= 9

\* C20 (amended): one request makes at most 18 invocations: for every
\* catalog feature present in the input one for the unmodified application
\* and, when the perturbed value could be built, one for the perturbed one.
TwoProbaCallsPerFeature ==
    pc = "suggest_done" =>
        /\ proba_calls =
              Cardinality(PresentTweakFeatures)
              + Cardinality({f \in PresentTweakFeatures :
                                ~TweakRaises(TweakOf(f), raw[f])})
        /\ proba_calls <= 2 * Cardinality(PresentTweakFeatures)
        /\ proba_calls <= 18

EighteenProbaCalls ==
    /\ pc = "suggest_done"
    /\ Cardinality(PresentTweakFeatures) = 9
    /\ proba_calls = 18

(***************************************************************************)
(* analyze_borderline_application called on attribution lists in any       *)
(* order, for every fraud severity                                         *)
(***************************************************************************)
MaxAdvisorAttributions == 5

\* an entry as LoanLimeExplainer.explain produces it
Attribution(name, contribution) ==
    [feature |-> Desc("", "", name, ""), contribution |-> contribution,
     description |-> Desc("", "", name, " <= 1.00")]

\* the entries a list is drawn from: two share a contribution, one is
\* positive, one names no feature of the knowledge base, three share a
\* document
AttributionPool ==
    {Attribution("credit_score", -80),
     Attribution("late_payments_12m", -30),
     Attribution("missed_payments_12m", -30),
     Attribution("monthly_income", -50),
     Attribution("savings_balance", 60),
     Attribution("0.00", -40),
     Attribution("debt_to_income_ratio", -20)}

AdvisorLists ==
    UNION {{l \in [1..n -> AttributionPool] : \A i, j \in 1..n : l[i] = l[j] => i = j} :
           n \in 0..MaxAdvisorAttributions}
    \cup {<< [feature |-> Desc("", "", "credit_score", " <= 700.00"), weight |-> -80] >>}

AdvisorPDs == {100, 500}

InitAdvisor ==
    /\ pc = "advisor_call"
    /\ p_in \in AdvisorPDs
    /\ lime_in \in AdvisorLists
    /\ flags_in \in {[severity |-> sev] : sev \in {"none", "soft", "hard"}}
    /\ raw = NoRaw /\ model = NoModel /\ explainer = NoExplainer
    /\ out = NoOut
    /\ FreshProcess

AnalyzeBorderlineApplication ==
    /\ pc = "advisor_call"
    /\ out' = analyze_borderline_application(p_in, lime_in, flags_in)
    /\ pc' = "advisor_done"
    /\ UNCHANGED <<raw, p_in, model, explainer, lime_in, flags_in>>
    /\ UNCHANGED <<proba_calls, heap>>
    /\ UNCHANGED storeVars

NextAdvisor == AnalyzeBorderlineApplication

SpecAdvisor == InitAdvisor /\ [][NextAdvisor]_vars

\* the advisory ran its generators: no hard fraud, every entry usable
Advised ==
    pc = "advisor_done" /\ out.status = "ok" /\ out.recommendation = "MANUAL_REVIEW"

\* the documents met when walking the top 4 negative attributions in rank
\* order and each one's document list in table order
DocumentWalk ==
    LET negative == Take(Negative(lime_in), 4)
    IN  Flatten([i \in 1..Len(negative) |->
                   IF InKnowledge(negative[i].feature)
                   THEN KnowledgeDocuments(negative[i].feature.name) ELSE <<>>])

\* C13: documents_needed has no duplicate, at most 6 entries, and lists the
\* documents in first-seen order of the walk over the top 4 negative
\* attributions: it is the first (at most 6) distinct documents of the walk.
DocumentsUniqueInFirstSeenOrder ==
    Advised =>
        LET docs == out.documents_needed
            walk == DocumentWalk
            first(doc) == CHOOSE p \in 1..Len(walk) :
                              walk[p] = doc /\ \A q \in 1..(p - 1) : walk[q] # doc
        IN  /\ Len(docs) <= 6
            /\ \A i, j \in 1..Len(docs) : docs[i] = docs[j] => i = j
            /\ \A i \in 1..Len(docs) : \E p \in 1..Len(walk) : walk[p] = docs[i]
            /\ \A i \in 1..(Len(docs) - 1) : first(docs[i]) < first(docs[i + 1])
            /\ \A p \in 1..Len(walk) :
                  (\A i \in 1..Len(docs) : docs[i] # walk[p])
                  => /\ Len(docs) = 6
                     /\ \A i \in 1..Len(docs) : first(docs[i]) < p

SharedDocumentListedOnce ==
    /\ Advised
    /\ Len(out.documents_needed) = 6
    /\ LET walk == DocumentWalk
       IN  /\ \E p, q \in 1..6 : p < q /\ walk[p] = walk[q]
           /\ Cardinality({walk[p] : p \in 1..Len(walk)}) > 6

Range(s) == {s[i] : i \in 1..Len(s)}

\* the actions of the top 4 negative attributions, as <<rank, action text>>
ActionWalk ==
    LET negative == Take(Negative(lime_in), 4)
    IN  {<<k, a>> \in (1..Len(negative)) \X UNION {Range(KnowledgeActions(f)) : f \in KnowledgeFeatureSet} :
            /\ InKnowledge(negative[k].feature)
            /\ a \in Range(KnowledgeActions(negative[k].feature.name))}

\* C21: improvement_actions holds no action text twice, at most 6 entries,
\* in non-decreasing order of the contribution of the attribution each
\* action comes from, and every entry is an action of one of the top 4
\* negative attributions; an action of those that is left out lost to six
\* entries of no larger contribution.
ActionsUniqueCappedAndSorted ==
    Advised =>
        LET acts == out.improvement_actions
            negative == Take(Negative(lime_in), 4)
        IN  /\ Len(acts) <= 6
            /\ \A i, j \in 1..Len(acts) : acts[i].action = acts[j].action => i = j
            /\ \A i \in 1..(Len(acts) - 1) : acts[i].impact <= acts[i + 1].impact
            /\ \A i \in 1..Len(acts) :
                  \E w \in ActionWalk :
                      /\ w[2] = acts[i].action
                      /\ acts[i].feature = negative[w[1]].feature.name
                      /\ acts[i].impact = negative[w[1]].contribution
            /\ \A w \in ActionWalk :
                  (\A i \in 1..Len(acts) : acts[i].action # w[2])
                  => /\ Len(acts) = 6
                     /\ \A i \in 1..Len(acts) :
                           acts[i].impact <= negative[w[1]].contribution

\* the sort moved the actions of a later, more risk-increasing attribution
\* to the front and the cut dropped actions of the top 4
ActionsReorderedAndCut ==
    /\ Advised
    /\ Len(out.improvement_actions) = 6
    /\ Cardinality(ActionWalk) > 6
    /\ LET negative == Take(Negative(lime_in), 4)
       IN  /\ InKnowledge(negative[1].feature)
           /\ out.improvement_actions[1].feature # negative[1].feature.name

HasKnownFeature(f) == InKnowledge(f.feature)
IsAttributionQuestion(q) == q.feature # "fraud_verification"

ApiInputs ==
    [age : {Num(3000)},
     education_level : {Num(200)},
     employment_type : {Num(100)},
     employment_years : {Num(100), Num(500)},
     monthly_income : {Num(300000)},
     fixed_monthly_expenses : {Num(200000), Num(400000)},
     debt_to_income_ratio : {Num(35)},
     savings_balance : {Num(500000)},
     loan_amount : {Num(1000000)},
     loan_duration_months : {Num(2400)},
     loan_purpose : {Num(100)},
     credit_score : {Num(68000), Num(72000)},
     late_payments_12m : {Num(0)},
     missed_payments_12m : {Num(0)},
     utility_bill_on_time_ratio : {Num(90), Num(100)},
     income_inflation_ratio : {Num(100), Num(150)},
     document_mismatch_flag : {Num(0), Num(100)},
     application_velocity : {Num(0)},
     geo_location_mismatch : {Num(0), Num(100)},
     metadata_anomaly_score : {Num(0), Num(80)}]

\* approval probabilities (thousandths) of the application as submitted
ApiProbabilities == {350, 550, 900}

\* how much (thousandths of PD) a perturbation of a feature can lower the
\* default probability; perturbing any other feature leaves it unchanged
ApiGains ==
    [credit_score : {0, 40}, monthly_income : {0, 1}, loan_amount : {0, 25}]

ApiModels ==
    {[status |-> "raises", classes |-> "01", proba |-> <<500, 500>>,
      tweaked |-> [f \in TweakFeatures |-> [status |-> "raises", proba |-> <<0, 0>>]]]}
    \cup {[status |-> "ok", classes |-> "01", proba |-> <<1000 - p, p>>,
           tweaked |-> [f \in TweakFeatures |->
                          IF f \in DOMAIN g THEN Outcome(1000 - p - g[f])
                          ELSE Outcome(1000 - p)]] :
             p \in ApiProbabilities, g \in ApiGains}

Init ==
    /\ pc = "api_call"
    /\ raw \in {Mapping(r) : r \in ApiInputs}
    /\ model \in ApiModels
    /\ explainer = ApiExplainer
    /\ p_in = 0
    /\ lime_in = <<>>
    /\ flags_in = NoFraudFlags
    /\ out = NoOut
    /\ FreshProcess

\* POST /api/analyze for the application id the request generated: the
\* documents uploaded so far are taken over, their extracted values replace
\* the submitted ones, the pipeline runs, and the result is stored
AnalyzeRequest(app_id) ==
    LET taken == TakeOverDocuments(documents_store, app_id)
        customer_data == UseExtractedDocuments(raw, taken[app_id])
    IN  /\ out' = analyze_application(customer_data, model)
        /\ documents_store' = taken
        /\ applications_store' =
              IF out'.status = "ok"
              THEN applications_store @@
                       (app_id :> [application |-> customer_data,
                                   analysis |-> out'.analysis])
              ELSE applications_store
        /\ proba_calls' = proba_calls + ApiProbaCalls(out', customer_data, model)

AnalyzeApplication ==
    /\ pc = "api_call"
    /\ AnalyzeRequest(AppId(1))
    /\ pc' = "api_done"
    /\ UNCHANGED <<raw, p_in, model, explainer, lime_in, flags_in>>
    /\ UNCHANGED <<heap, tasks>>

Next == AnalyzeApplication

Spec == Init /\ [][Next]_vars

BlockedResultIsMinimal ==
    (pc = "api_done" /\ out.status = "ok" /\ out.analysis.fraud_decision = "BLOCK") =>
        /\ out.response.interview_questions = <<>>
        /\ out.response.documents_needed = <<>>
        /\ out.response.improvement_actions = <<>>

ClosingQuestionIsLast ==
    (pc = "api_done" /\ out.status = "ok") =>
        LET questions == out.response.interview_questions
        IN  /\ questions # <<>>
            /\ questions[Len(questions)].feature = "overall"

HasSeverity(flags, severity) ==
    \E i \in 1..Len(flags) : flags[i].severity = severity

\* C19: whenever the fraud assessment holds a soft flag and no hard flag,
\* the advisory runs in verification mode: its explanation is the
\* verification message and its first question is the fraud-clarification
\* question; with no soft flag neither appears.
SoftFlagMeansVerification ==
    (pc = "api_done" /\ out.status = "ok"
        /\ ~HasSeverity(out.analysis.fraud.flags, "hard")) =>
        LET advice == out.borderline_result
            verifying ==
                /\ advice.explanation.kind = "verification"
                /\ Len(advice.interview_questions) >= 1
                /\ advice.interview_questions[1].feature = "fraud_verification"
            silent ==
                /\ advice.explanation.kind # "verification"
                /\ \A i \in 1..Len(advice.interview_questions) :
                      advice.interview_questions[i].feature # "fraud_verification"
        IN  IF HasSeverity(out.analysis.fraud.flags, "soft") THEN verifying ELSE silent


(***************************************************************************)
(* Specification SpecDocuments: one server process serving uploads,        *)
(* status polls and analyze requests while the extraction tasks of the     *)
(* uploads run in the thread pool.  A task is one step here: the step in   *)
(* which it looks its application id up in documents_store and writes its  *)
(* result, after an extraction that ended in one of ExtractionOutcomes.    *)
(* The classifier answers the extracted values as it answers the           *)
(* submitted ones.                                                         *)
(***************************************************************************)
MaxUploads == 2
MaxRequests == 2

\* the ids clients make up for uploads that precede the analyze request
TempIds == {<<"temp", 1>>}

supported_types == {".pdf", ".png", ".jpg", ".jpeg", ".tiff"}

UploadExtensions == {".pdf", ".exe"}

\* the application ids analyze requests have generated so far
IssuedIds == {key \in DOMAIN documents_store : StartsWithCR(key)}

DocumentsModel ==
    [status |-> "ok", classes |-> "01", proba |-> <<450, 550>>,
     tweaked |-> [f \in TweakFeatures |-> Outcome(450)]]

DocumentsInput ==
    CHOOSE r \in ApiInputs :
        /\ r.document_mismatch_flag = Num(0)
        /\ r.metadata_anomaly_score = Num(0)
        /\ r.geo_location_mismatch = Num(0)
        /\ r.income_inflation_ratio = Num(100)
        /\ r.fixed_monthly_expenses = Num(200000)

InitDocuments ==
    /\ pc = "serving"
    /\ raw = Mapping(DocumentsInput)
    /\ model = DocumentsModel
    /\ explainer = ApiExplainer
    /\ p_in = 0
    /\ lime_in = <<>>
    /\ flags_in = NoFraudFlags
    /\ out = NoOut
    /\ FreshProcess

\* POST /api/documents/upload/{application_id}
UploadDocument(application_id, extension) ==
    /\ pc = "serving"
    /\ Len(tasks) < MaxUploads
    /\ IF extension \notin supported_types
       THEN /\ out' = [status |-> "error", http |-> 400]
            /\ UNCHANGED <<documents_store, tasks>>
       ELSE LET file_id == Len(tasks) + 1
                created == IF application_id \in DOMAIN documents_store
                           THEN documents_store
                           ELSE documents_store @@ (application_id :> <<>>)
            IN  /\ documents_store' =
                      [created EXCEPT ![application_id] =
                          Append(@, PendingDocument(file_id))]
                /\ tasks' = Append(tasks, [application_id |-> application_id,
                                           file_id |-> file_id,
                                           state |-> "queued"])
                /\ out' = [status |-> "ok", http |-> 200,
                           document |-> PendingDocument(file_id)]
    /\ UNCHANGED <<pc, raw, p_in, model, explainer, lime_in, flags_in>>
    /\ UNCHANGED <<proba_calls, heap, applications_store>>

\* the n-th background task, _extract_document_background
ExtractDocumentBackground(n) ==
    /\ n \in 1..Len(tasks)
    /\ tasks[n].state = "queued"
    /\ \E outcome \in ExtractionOutcomes :
          documents_store' =
              extract_document_background(
                  documents_store, tasks[n].application_id, tasks[n].file_id,
                  outcome)
    /\ tasks' = [tasks EXCEPT ![n].state = "done"]
    /\ UNCHANGED <<pc, raw, p_in, model, explainer, lime_in, flags_in, out>>
    /\ UNCHANGED <<proba_calls, heap, applications_store>>

\* POST /api/analyze while documents are being uploaded and extracted
AnalyzeWithDocuments ==
    /\ pc = "serving"
    /\ Cardinality(IssuedIds) < MaxRequests
    /\ AnalyzeRequest(AppId(Cardinality(IssuedIds) + 1))
    /\ UNCHANGED <<pc, raw, p_in, model, explainer, lime_in, flags_in>>
    /\ UNCHANGED <<heap, tasks>>

\* GET /api/documents/{application_id}/{document_id}/status
GetDocumentStatus(application_id, document_id) ==
    /\ pc = "serving"
    /\ out' = get_document_status(documents_store, application_id, document_id)
    /\ UNCHANGED <<pc, raw, p_in, model, explainer, lime_in, flags_in>>
    /\ UNCHANGED <<proba_calls, heap>>
    /\ UNCHANGED storeVars

NextDocuments ==
    \/ \E application_id \in TempIds \cup IssuedIds, extension \in UploadExtensions :
          UploadDocument(application_id, extension)
    \/ \E n \in 1..MaxUploads : ExtractDocumentBackground(n)
    \/ AnalyzeWithDocuments
    \/ \E application_id \in TempIds \cup IssuedIds, document_id \in 1..MaxUploads :
          GetDocumentStatus(application_id, document_id)

SpecDocuments == InitDocuments /\ [][NextDocuments]_vars

\* the thread pool runs every task that was added to the end
FairSpecDocuments ==
    SpecDocuments /\ \A n \in 1..MaxUploads : WF_vars(ExtractDocumentBackground(n))

\* the n-th upload was accepted
Uploaded(n) == n \in 1..Len(tasks)

\* what the status endpoint reports for the n-th upload, asked with the
\* application id the upload was made under
ReportedStatus(n) ==
    get_document_status(documents_store, tasks[n].application_id, tasks[n].file_id)

FinalStatuses == {"extracted", "extracted_with_issues", "failed"}

\* C17 as stated: once upload_document accepted a document, the status that
\* get_document_status reports for it eventually is extracted,
\* extracted_with_issues or failed, however the extraction tasks interleave
\* with analyze requests that move documents.
UploadedDocumentLeavesPending ==
    \A n \in 1..MaxUploads :
        Uploaded(n) ~> (Uploaded(n) /\ ReportedStatus(n).http = 200
                        /\ ReportedStatus(n).status \in FinalStatuses)


(***************************************************************************)
(* Specification SpecFrame: the objects the pipeline operations touch      *)
(*                                                                         *)
(* heap maps the name of an object to its cell: the applicant's mapping    *)
(* the caller passed (raw_data), the two module tables of                  *)
(* borderline_advisor.py, and the dicts and lists the operations create    *)
(* (X_test, flags, questions, docs, actions, unique).  An operation is     *)
(* the sequence of its writes, each to the object its statement names;     *)
(* the specifications above leave heap out and work on values only.        *)
(***************************************************************************)
HeapObjects ==
    {"raw_data", "FEATURE_KNOWLEDGE", "PD_IMPROVEMENT_RULES",
     "X_test", "flags", "questions", "docs", "actions", "unique"}

Unbound == [bound |-> FALSE, value |-> <<>>]
Cell(value) == [bound |-> TRUE, value |-> value]

KnowledgeTable ==
    [fname \in KnowledgeFeatureSet |->
        [documents |-> KnowledgeDocuments(fname), actions |-> KnowledgeActions(fname)]]

RulesTable == [fname \in PdImprovementFeatures |-> PD_IMPROVEMENT_RULES(fname)]

\* the objects when a caller hands its mapping to the pipeline
HeapWith(d) ==
    [o \in HeapObjects |->
        CASE o = "raw_data" -> Cell(d)
          [] o = "FEATURE_KNOWLEDGE" -> Cell(KnowledgeTable)
          [] o = "PD_IMPROVEMENT_RULES" -> Cell(RulesTable)
          [] OTHER -> Unbound]

\* the four kinds of statement that write an object
NewObject(ref, value) == [kind |-> "new", ref |-> ref, value |-> value]
CopyObject(ref, from) == [kind |-> "copy", ref |-> ref, from |-> from]
SetItem(ref, key, value) == [kind |-> "setitem", ref |-> ref, key |-> key, value |-> value]
Extend(ref, values) == [kind |-> "extend", ref |-> ref, values |-> values]

ApplyWrite(h, w) ==
    CASE w.kind = "new" -> [h EXCEPT ![w.ref] = Cell(w.value)]
      [] w.kind = "copy" -> [h EXCEPT ![w.ref] = h[w.from]]
      [] w.kind = "setitem" ->
            [h EXCEPT ![w.ref] = Cell([h[w.ref].value EXCEPT ![w.key] = w.value])]
      [] w.kind = "extend" -> [h EXCEPT ![w.ref] = Cell(h[w.ref].value \o w.values)]

RECURSIVE ApplyWrites(_, _)
ApplyWrites(h, writes) ==
    IF writes = <<>> THEN h
    ELSE ApplyWrites(ApplyWrite(h, Head(writes)), Tail(writes))

\* a list created empty and filled by append
LocalList(ref, values) == <<NewObject(ref, <<>>), Extend(ref, values)>>

\* a variant in which the name is bound to the object itself
dict_copy_aliasing(ref, name) == ref

\* X_test = raw_data.copy(): the object the name is bound to
dict_copy(ref, name) == name

\* fraud_check: flags = [] and its appends
FraudCheckWrites(d) == LocalList("flags", fraud_check(d).flags)

\* test_feature_improvement for one catalog feature
FeatureWrites(d, m, tweak) ==
    IF ~Has(d, tweak.feature) \/ m.status = "raises" THEN <<>>
    ELSE LET X_test == dict_copy("raw_data", "X_test")
             original_value == Get(d, tweak.feature, Num(0))
         IN  <<CopyObject(X_test, "raw_data")>>
             \o (IF TweakRaises(tweak, original_value) THEN <<>>
                 ELSE <<SetItem(X_test, tweak.feature,
                                Num(TweakedValue(tweak,
                                    IF original_value.k = "num"
                                    THEN original_value.v ELSE 0)))>>)

\* generate_ai_suggestions: the writes of the first n catalog features
RECURSIVE SuggesterWrites(_, _, _)
SuggesterWrites(d, m, n) ==
    IF n = 0 THEN <<>>
    ELSE SuggesterWrites(d, m, n - 1) \o FeatureWrites(d, m, FEATURE_TWEAKS[n])

\* generate_interview_questions: questions = [] and its appends
InterviewWrites(d, lime_features, pd_score) ==
    LocalList("questions", generate_interview_questions(d, lime_features, pd_score).questions)

\* generate_documents: docs takes the lists of the table, unique the result
DocumentWrites(lime_features) ==
    LET negative == Take(Negative(lime_features), 4)
    IN  <<NewObject("docs", <<>>)>>
        \o [i \in 1..Len(negative) |->
              Extend("docs", IF InKnowledge(negative[i].feature)
                             THEN KnowledgeDocuments(negative[i].feature.name)
                             ELSE <<>>)]
        \o LocalList("unique", generate_documents(lime_features))

\* generate_actions: actions and unique are built and unique is sorted
ActionWrites(lime_features) ==
    LocalList("actions", generate_actions(lime_features))
    \o <<NewObject("unique", generate_actions(lime_features))>>

\* analyze_borderline_application
AdvisorWrites(pd_score, lime_features, fraud_flags) ==
    IF check_fraud_severity(fraud_flags) = "REJECT" \/ LacksContribution(lime_features)
    THEN <<>>
    ELSE LocalList("questions", generate_questions(lime_features, fraud_flags))
         \o DocumentWrites(lime_features)
         \o ActionWrites(lime_features)

FrameInputs ==
    {Mapping(r) : r \in {x \in ApiInputs :
                            /\ x.fixed_monthly_expenses = Num(200000)
                            /\ x.credit_score = Num(68000)
                            /\ x.utility_bill_on_time_ratio = Num(90)
                            /\ x.income_inflation_ratio = Num(100)
                            /\ x.document_mismatch_flag = Num(0)
                            /\ x.metadata_anomaly_score = Num(0)}}
    \cup {[Mapping(DocumentsInput) EXCEPT !["employment_years"] = NoneVal]}

FrameLimeLists ==
    {<<>>,
     <<Attribution("credit_score", -80), Attribution("savings_balance", 60),
       Attribution("monthly_income", -50)>>}

FrameFlags == {[severity |-> "none", details |-> <<>>],
               [severity |-> "soft", details |-> <<>>]}

InitFrame ==
    /\ pc = "frame"
    /\ raw \in FrameInputs
    /\ model \in {DocumentsModel, [DocumentsModel EXCEPT !.status = "raises"]}
    /\ explainer = ApiExplainer
    /\ p_in = 500
    /\ lime_in \in FrameLimeLists
    /\ flags_in \in FrameFlags
    /\ out = NoOut
    /\ proba_calls = 0
    /\ heap = HeapWith(raw)
    /\ documents_store = NoDocuments
    /\ applications_store = NoApplications
    /\ tasks = NoTasks

\* the caller's mapping as the operation finds it
raw_data == heap["raw_data"].value

FrameUnchanged ==
    UNCHANGED <<pc, raw, p_in, model, explainer, lime_in, flags_in, proba_calls>>
    /\ UNCHANGED storeVars

FrameFraudCheck ==
    /\ pc = "frame"
    /\ out' = fraud_check(raw_data)
    /\ heap' = ApplyWrites(heap, FraudCheckWrites(raw_data))
    /\ FrameUnchanged

FrameAnalyzeApplicationComplete ==
    /\ pc = "frame"
    /\ out' = analyze_application_complete(raw_data, model, explainer)
    /\ heap' = IF model.status = "raises" THEN heap
               ELSE ApplyWrites(heap, FraudCheckWrites(raw_data))
    /\ FrameUnchanged

FrameGenerateAiSuggestions ==
    /\ pc = "frame"
    /\ out' = [status |-> "ok",
               suggestions |-> generate_ai_suggestions(raw_data, model, p_in, lime_in)]
    /\ heap' = ApplyWrites(heap, SuggesterWrites(raw_data, model, Len(FEATURE_TWEAKS)))
    /\ FrameUnchanged

FrameGenerateInterviewQuestions ==
    /\ pc = "frame"
    /\ out' = generate_interview_questions(raw_data, lime_in, p_in)
    /\ heap' = ApplyWrites(heap, InterviewWrites(raw_data, lime_in, p_in))
    /\ FrameUnchanged

FrameAnalyzeBorderlineApplication ==
    /\ pc = "frame"
    /\ out' = analyze_borderline_application(p_in, lime_in, flags_in)
    /\ heap' = ApplyWrites(heap, AdvisorWrites(p_in, lime_in, flags_in))
    /\ FrameUnchanged

NextFrame ==
    \/ FrameFraudCheck
    \/ FrameAnalyzeApplicationComplete
    \/ FrameGenerateAiSuggestions
    \/ FrameGenerateInterviewQuestions
    \/ FrameAnalyzeBorderlineApplication

SpecFrame == InitFrame /\ [][NextFrame]_vars

\* C16: whatever pipeline operations have run, the applicant's mapping is
\* the one the caller passed and the tables FEATURE_KNOWLEDGE and
\* PD_IMPROVEMENT_RULES hold their initial contents.
InputAndTablesUntouched ==
    /\ heap["raw_data"] = Cell(raw)
    /\ heap["FEATURE_KNOWLEDGE"] = Cell(KnowledgeTable)
    /\ heap["PD_IMPROVEMENT_RULES"] = Cell(RulesTable)

\* the suggester perturbed its copy and the advisor collected documents
PerturbedCopyAndDocuments ==
    /\ heap["X_test"].bound
    /\ \E f \in TweakFeatures : heap["X_test"].value[f] # raw[f]
    /\ heap["docs"].bound /\ heap["docs"].value # <<>>
    /\ out.status = "ok"


(***************************************************************************)
(* Specification SpecEstimate: estimate_pd_improvement on attribution      *)
(* lists in rank order and in reverse rank order, for default              *)
(* probabilities on both sides of the floor                                *)
(***************************************************************************)
MaxEstimateAttributions == 8

\* six negative entries with a weight in PD_IMPROVEMENT_RULES, one negative
\* entry without, one positive entry with a weight
EstimateRanking ==
    <<Attribution("debt_to_income_ratio", -90),
      Attribution("monthly_income", -80),
      Attribution("savings_balance", 70),
      Attribution("0.00", -60),
      Attribution("credit_score", -50),
      Attribution("employment_years", -40),
      Attribution("late_payments_12m", -30),
      Attribution("utility_bill_on_time_ratio", -20)>>

Reversed(s) == [i \in 1..Len(s) |-> s[Len(s) + 1 - i]]

\* the entries of S in the order of the ranking
RECURSIVE Keep(_, _)
Keep(ranking, S) ==
    IF ranking = <<>> THEN <<>>
    ELSE (IF Head(ranking) \in S THEN <<Head(ranking)>> ELSE <<>>)
         \o Keep(Tail(ranking), S)

EstimateLists ==
    {Keep(ranking, S) :
        ranking \in {EstimateRanking, Reversed(EstimateRanking)},
        S \in {T \in SUBSET Range(EstimateRanking) :
                  Cardinality(T) <= MaxEstimateAttributions}}

\* default probabilities in thousandths
EstimatePDs == {0, 10, 30, 50, 100, 500, 1000}

InitEstimate ==
    /\ pc = "estimate_call"
    /\ p_in \in EstimatePDs
    /\ lime_in \in EstimateLists
    /\ flags_in = NoFraudFlags
    /\ raw = NoRaw /\ model = NoModel /\ explainer = NoExplainer
    /\ out = NoOut
    /\ FreshProcess

EstimatePdImprovement ==
    /\ pc = "estimate_call"
    /\ out' = estimate_pd_improvement(lime_in, p_in)
    /\ pc' = "estimate_done"
    /\ UNCHANGED <<raw, p_in, model, explainer, lime_in, flags_in>>
    /\ UNCHANGED <<proba_calls, heap>>
    /\ UNCHANGED storeVars

NextEstimate == EstimatePdImprovement

SpecEstimate == InitEstimate /\ [][NextEstimate]_vars

\* the positions of the first five negative attributions of the list
FirstFiveNegative ==
    {k \in 1..Len(lime_in) :
        /\ lime_in[k].contribution < 0
        /\ Cardinality({j \in 1..k : lime_in[j].contribution < 0}) <= 5}

\* the static weight of a feature, 0 when the table has none
StaticWeight(f) == IF InPdRules(f.feature) THEN PD_IMPROVEMENT_RULES(f.feature.name) ELSE 0

RECURSIVE SumOfWeights(_)
SumOfWeights(K) ==
    IF K = {} THEN 0
    ELSE LET k == CHOOSE x \in K : TRUE
         IN  StaticWeight(lime_in[k]) + SumOfWeights(K \ {k})

\* C22: potential_pd is max(0.03, current_pd - T) with T the sum of the
\* static weights of the first 5 negative attributions in rank order;
\* positive attributions and negative ones beyond the fifth add nothing.
PotentialIsCurrentLessTopFive ==
    pc = "estimate_done" =>
        LET T == SumOfWeights(FirstFiveNegative)
        IN  /\ out.improvement = T
            /\ out.current_pd = p_in
            /\ out.potential_pd = Max(30, p_in - T)

\* a weighted negative attribution beyond the fifth and a weighted positive
\* one were in the list, and the floor did not hide the sum
SixthNegativeLeftOut ==
    /\ pc = "estimate_done"
    /\ \E k \in 1..Len(lime_in) :
          /\ lime_in[k].contribution < 0 /\ k \notin FirstFiveNegative
          /\ StaticWeight(lime_in[k]) > 0
    /\ \E k \in 1..Len(lime_in) :
          lime_in[k].contribution > 0 /\ StaticWeight(lime_in[k]) > 0
    /\ \E k \in FirstFiveNegative : StaticWeight(lime_in[k]) = 0
    /\ out.potential_pd > 30

\* C26 as stated: the potential_pd reported is never larger than the
\* current_pd given.
PotentialNeverAboveCurrent ==
    pc = "estimate_done" => out.potential_pd <= out.current_pd


(***************************************************************************)
(* Specification SpecSuggestClose: generate_ai_suggestions with a          *)
(* classifier whose answers to two perturbations lie within 0.1 % of each  *)
(* other; probabilities in ten-thousandths                                 *)
(***************************************************************************)
CloseFeatures == {"monthly_income", "credit_score", "loan_amount"}

\* the default probability of the application as it is, and of a perturbed
\* one (ten-thousandths)
CloseBasePD == 5000
ClosePDs == {4000, 4749, 4751, 5000}

CloseOutcome(pd) == [status |-> "ok", proba |-> <<pd, 10000 - pd>>]

InitSuggestClose ==
    /\ pc = "suggest_call"
    /\ raw = [f \in Fields |->
                IF f \in CloseFeatures
                THEN (CHOOSE v \in SuggestValues(f) : v.k = "num" /\ v.v > 0)
                ELSE Absent]
    /\ \E outs \in [CloseFeatures -> ClosePDs] :
         model = [status |-> "ok", classes |-> "01",
                  proba |-> CloseOutcome(CloseBasePD).proba,
                  tweaked |-> [f \in TweakFeatures |->
                                 IF f \in CloseFeatures THEN CloseOutcome(outs[f])
                                 ELSE CloseOutcome(CloseBasePD)]]
    /\ lime_in \in SuggestLimeLists
    /\ flags_in = NoFraudFlags
    /\ explainer = NoExplainer /\ p_in = 0
    /\ out = NoOut
    /\ FreshProcess

SpecSuggestClose == InitSuggestClose /\ [][NextSuggest]_vars

\* C27 as stated: the first suggestion returned has the lowest projected PD
\* of all the suggestions that passed the threshold.
FirstSuggestionHasLowestPD ==
    (pc = "suggest_done" /\ out.suggestions # <<>>) =>
        LET surv == Survivors
        IN  \A i \in 1..Len(surv) :
                out.suggestions[1].new_estimated_pd <= surv[i].new_estimated_pd

(***************************************************************************)
(* The two banding functions on the same application: get_risk_band on the *)
(* probability of default with its default thresholds, risk_band_from_pd   *)
(* on the approval probability 1 - pd                                      *)
(***************************************************************************)
InitRiskBands ==
    /\ pc = "bands_call"
    /\ p_in \in Probabilities
    /\ raw = NoRaw /\ model = NoModel /\ explainer = NoExplainer
    /\ lime_in = <<>>
    /\ flags_in = NoFraudFlags
    /\ out = NoOut
    /\ FreshProcess

GetRiskBand ==
    /\ pc = "bands_call"
    /\ out' = [status |-> "ok",
               risk_band |-> get_risk_band(p_in, 700, 400),
               band |-> risk_band_from_pd(1000 - p_in)]
    /\ pc' = "bands_done"
    /\ UNCHANGED <<raw, p_in, model, explainer, lime_in, flags_in>>
    /\ UNCHANGED <<proba_calls, heap>>
    /\ UNCHANGED storeVars

NextRiskBands == GetRiskBand

SpecRiskBands == InitRiskBands /\ [][NextRiskBands]_vars

CorrespondingBand(risk_band) ==
    CASE risk_band = "High" -> "REJECTED"
      [] risk_band = "Middle" -> "MIDDLE"
      [] risk_band = "Low" -> "APPROVED"

\* C28 as stated: for every probability of default pd, get_risk_band(pd)
\* with the default thresholds and risk_band_from_pd(1 - pd) give
\* corresponding bands (High/REJECTED, Middle/MIDDLE, Low/APPROVED).
BandingFunctionsAgree ==
    pc = "bands_done" => out.band = CorrespondingBand(out.risk_band)

(***************************************************************************)
(* Two clients upload under temporary ids of their own before analyze      *)
(* requests arrive                                                         *)
(***************************************************************************)
ClientTempIds == {<<"temp", 1>>, <<"temp", 2>>}

NextClients ==
    \/ \E application_id \in ClientTempIds, extension \in UploadExtensions :
          UploadDocument(application_id, extension)
    \/ \E n \in 1..MaxUploads : ExtractDocumentBackground(n)
    \/ AnalyzeWithDocuments
    \/ \E application_id \in ClientTempIds \cup IssuedIds, document_id \in 1..MaxUploads :
          GetDocumentStatus(application_id, document_id)

SpecClients == InitDocuments /\ [][NextClients]_vars

\* the temporary ids under which the documents of a list were uploaded
UploadedUnder(docs) ==
    {tasks[docs[i].id].application_id : i \in 1..Len(docs)} \cap ClientTempIds

\* C29 as stated: the documents an analyze request attaches to its
\* application (and reads extracted fields from) were uploaded under at most
\* one temporary id.
OneTempIdPerRequest ==
    \A app_id \in IssuedIds :
        Cardinality(UploadedUnder(documents_store[app_id])) <= 1

====
